---------------------------- MODULE Spec2Model ----------------------------
(***************************************************************************)
(* Relay engine of conference-server (src/conference-server/main.go).     *)
(*                                                                         *)
(* Every JoinConference invocation is a process ("call").  A call owns    *)
(* the Client object it builds, and the Room object it builds in          *)
(* NewRoom, so both kinds of object are named by the number of the call   *)
(* that made them.  A step is an operation on a sync.Map, a channel       *)
(* operation or a stream operation, together with the code before it      *)
(* that only touches the call's locals.  Three groups of operations are   *)
(* one step each: the two Stores of AddClient, the two Deletes of         *)
(* RemoveClient with the close that follows them, and the sends of one    *)
(* Broadcast; the comments at AddClientStore, RemoveClient and Broadcast  *)
(* say what that leaves out.                                               *)
(***************************************************************************)
EXTENDS Naturals, Sequences, FiniteSets

\* ------------------------------------------------------------------ bounds
\* Number of JoinConference invocations.
NCalls == 3
\* Capacity of Client.ch.  The source makes the channel with capacity 100
\* (main.go:102); the model scales it so that a full queue is reachable.
ChanCap == 2
\* Number of envelopes the members of a room send, in total, when the room
\* starts with its members joined (SpecChat).
MaxMsgs == 2
\* The same number when every call starts from its initial envelope (Spec).
JoinMsgs == 1

\* Number of RequestFileTransfer calls, of RespondFileTransfer calls and of
\* TransferFile calls.
NReqs == 2
NResps == 2
MaxTf == 2

\* Number of TransferFile streams that carry chunks, and of chunks a sender
\* emits on one stream.
NStreams == 3
MaxChunks == 2

Calls == 1..NCalls
None == 0
Streams == 1..NStreams
Reqs == 1..NReqs
Resps == 1..NResps

\* ------------------------------------------------------------------ inputs
AddrSeq == <<"a1", "a2", "a3", "a4", "a5">>
Addrs == {AddrSeq[i] : i \in 1..NCalls}
Names == {"alice", "Alice", "bob"}
Rooms == {"r1", "r2"}
TransferIds == {"t1"}
\* The transfer ids the file-transfer calls carry.
XferIds == {"t1", "t2"}
Roles == {"sender", "receiver"}
\* The n-th content a participant types.
MsgText == <<"m1", "m2", "m3", "m4", "m5">>

\* What the initial envelope of the p-th call may carry, and the address it
\* comes from.  Calls are interchangeable, so the first one always is alice
\* at a1 in r1.  The second one joins the same room: under the same name
\* from another connection, or under the name in another letter case from
\* another connection or from the same one.  The later ones are bob, each
\* from a connection of its own, in either room.
Identities(p) ==
    IF p = 1 THEN {<<"alice", "a1">>}
    ELSE IF p = 2 THEN {<<"alice", "a2">>, <<"Alice", "a2">>, <<"Alice", "a1">>}
    ELSE {<<"bob", AddrSeq[p]>>}
RoomChoices(p) == IF p < 3 THEN {"r1"} ELSE Rooms

\* The calls whose client may stop reading its stream: the connection breaks
\* and the sending goroutine's stream.Send fails.
Slow == {1}

\* strings.ToLower on the names of the model.
ToLower(s) == IF s = "Alice" THEN "alice" ELSE s

VARIABLES
    pc,          \* pc[p]: the place call p has reached in JoinConference
    roomID,      \* roomID[p]: initialMsg.GetRoomId()
    senderID,    \* senderID[p]: initialMsg.GetSender(), also Client.id
    clientAddr,  \* clientAddr[p]: p.Addr.String(), also Client.addr
    room,        \* room[p]: the Room object call p holds (its local `room`)
    rooms,       \* server.rooms: room id -> Room object, None when absent
    clients,     \* clients[o][a]: Room o's clients map, addr -> Client
    users,       \* users[o][n]: Room o's users map, sender id -> Client
    ch,          \* ch[p]: the contents of Client p's channel
    closed,      \* closed[p]: close(client.ch) has run
    outb,        \* outb[p]: state of call p's sending goroutine
    bmsg,        \* bmsg[p]: the envelope call p's Broadcast or send carries
    target,      \* target[p]: the recipient handlePrivateMessage resolved
    nrecv,       \* nrecv[p]: envelopes tosend from p after the initial one
    tosend,      \* envelopes the clients are still going to send, over all calls
    result,      \* result[p]: what JoinConference returned
    reject,      \* reject[p]: the envelope JoinConference wrote with stream.Send
    activeTransfers, \* server.activeTransfers: transfer id -> kind of transfer
    reqPc,           \* RequestFileTransfer call -> where it is
    reqTid,          \* ... -> req.TransferId
    respChan,        \* ... -> the contents of the respChan it made
    reqResult,       \* ... -> the response it returned
    transferResponses, \* server.transferResponses: id -> whose respChan
    rspPc,           \* RespondFileTransfer call -> where it is
    rspMsg,          \* ... -> resp
    rspChan,         \* ... -> the respChan it loaded (its maker)
    rspResult,       \* ... -> what it returned
    tfCount,         \* TransferFile calls so far
    tfLast,          \* the last TransferFile call: id, role, outcome
    attached,        \* transfer id -> the roles whose stream is attached
    chatReqPc,       \* chat-server RequestFileTransfer call -> where it is
    chatReqTid,      \* ... -> req.TransferId
    chatReqSender,   \* ... -> req.Sender
    chatReqResult,   \* ... -> the response it returned
    chanMade,        \* chat-server transferResponses[r1]: sender -> made
    senderRespChan,  \* ... sender -> the contents of its channel
    fileTransfers,   \* chat-server fileTransfers: id -> state of the entry
    inbox,           \* chat-server room r1: member -> ids it was notified of
    nResponds,       \* chat-server RespondFileTransfer calls so far
    chatEntry,       \* chat-server fileTransfers: id -> the call that stored the entry
    senderStream,    \* chat-server fileTransfer of call q: senderStream is set
    receiverStream,  \* ... receiverStream is set
    chatTfPc,        \* ... where the TransferFile handler of its sender is
    chatGot,         \* ... chunks sent on its receiverStream
    tfPc,            \* TransferFile stream -> where its handler is
    tfId,            \* ... -> tID
    tfRole,          \* ... -> role
    tfAddr,          \* ... -> clientAddr
    tfKind,          \* ... -> the kind of Transfer it loaded
    tfResult,        \* ... -> what the call returned
    st,              \* ... -> the client's end: open, eof, broken
    sent,            \* ... -> is_last of the chunks read from it, in order
    got,             \* ... -> the chunks sent on it, in order
    txSender,        \* transfer id -> tx.sender
    txReceiver,      \* transfer id -> tx.receiver (p2pTransfer)
    txReceivers,     \* transfer id -> tx.receivers (broadcastTransfer)
    proxies,         \* the proxyP2PChunks goroutines: <<sender, receiver>>
    crashed      \* a goroutine panicked: the process is gone

joinvars == <<pc, roomID, senderID, clientAddr, room, rooms, clients, users, ch,
              closed, outb, bmsg, target, nrecv, tosend, result, reject,
              activeTransfers, crashed>>

xfervars == <<reqPc, reqTid, respChan, reqResult, transferResponses, rspPc,
              rspMsg, rspChan, rspResult, tfCount, tfLast, attached>>

chatfilevars == <<senderStream, receiverStream, chatTfPc, chatGot>>

chatvars == <<chatReqPc, chatReqTid, chatReqSender, chatReqResult, chanMade,
              senderRespChan, fileTransfers, inbox, nResponds, chatEntry,
              chatfilevars>>

streamvars == <<tfPc, tfId, tfRole, tfAddr, tfKind, tfResult, st, sent, got,
                txSender, txReceiver, txReceivers, proxies>>

vars == <<joinvars, xfervars, chatvars, streamvars>>

\* ---------------------------------------------------------------- envelopes
\* pb.ConferenceData: Sender, RoomId and the payload (kind, with the command
\* type or "", and the value as the fragments fmt.Sprintf joins).  from, seq
\* and to are not on the wire: they name the call and the index of the
\* inbound envelope this one was made from (None, 0 for the server's own),
\* and the recipient a private message was addressed to ("" otherwise).
Env(s, r, k, t, v, f, n) ==
    [sender |-> s, room |-> r, kind |-> k, type |-> t, value |-> v,
     from |-> f, seq |-> n, to |-> ""]

NoEnv == Env("", "", "none", "", <<>>, None, 0)

UserJoined(p) ==
    Env("Server", roomID[p], "command", "USER_JOINED", <<senderID[p]>>, None, 0)

UserLeft(p) ==
    Env("Server", roomID[p], "command", "USER_LEFT", <<senderID[p]>>, None, 0)

Welcome(p) ==
    Env("", "", "command", "WELCOME",
        <<"Welcome to room '", roomID[p], "'">>, None, 0)

\* No file-transfer call has been made: newServer (main.go:72-76).
NoResp == [id |-> "", accepted |-> FALSE]
NoTf == [id |-> "", role |-> "", outcome |-> ""]

XferIdle ==
    /\ reqPc = [q \in Reqs |-> "start"]
    /\ reqTid = [q \in Reqs |-> ""]
    /\ respChan = [q \in Reqs |-> <<>>]
    /\ reqResult = [q \in Reqs |-> NoResp]
    /\ transferResponses = [t \in XferIds |-> None]
    /\ rspPc = [k \in Resps |-> "start"]
    /\ rspMsg = [k \in Resps |-> NoResp]
    /\ rspChan = [k \in Resps |-> None]
    /\ rspResult = [k \in Resps |-> ""]
    /\ tfCount = 0
    /\ tfLast = NoTf
    /\ attached = [t \in XferIds |-> {}]

\* chat-server: no file-transfer call has been made (chat-server
\* main.go:153-161), and room r1 has its two members.
ChatMembers == {"alice", "bob"}

ChatServerIdle ==
    /\ chatReqPc = [q \in Reqs |-> "start"]
    /\ chatReqTid = [q \in Reqs |-> ""]
    /\ chatReqSender = [q \in Reqs |-> ""]
    /\ chatReqResult = [q \in Reqs |-> NoResp]
    /\ chanMade = [n \in ChatMembers |-> FALSE]
    /\ senderRespChan = [n \in ChatMembers |-> <<>>]
    /\ fileTransfers = [t \in XferIds |-> "none"]
    /\ inbox = [n \in ChatMembers |-> {}]
    /\ nResponds = 0
    /\ chatEntry = [t \in XferIds |-> None]
    /\ senderStream = [q \in Reqs |-> FALSE]
    /\ receiverStream = [q \in Reqs |-> FALSE]
    /\ chatTfPc = [q \in Reqs |-> "none"]
    /\ chatGot = [q \in Reqs |-> 0]

\* No TransferFile stream has been opened.
StreamIdle ==
    /\ tfPc = [x \in Streams |-> "start"]
    /\ tfId = [x \in Streams |-> ""]
    /\ tfRole = [x \in Streams |-> ""]
    /\ tfAddr = [x \in Streams |-> ""]
    /\ tfKind = [x \in Streams |-> "none"]
    /\ tfResult = [x \in Streams |-> ""]
    /\ st = [x \in Streams |-> "open"]
    /\ sent = [x \in Streams |-> <<>>]
    /\ got = [x \in Streams |-> <<>>]
    /\ txSender = [t \in XferIds |-> None]
    /\ txReceiver = [t \in XferIds |-> None]
    /\ txReceivers = [t \in XferIds |-> [a \in Addrs |-> None]]
    /\ proxies = {}

\* ------------------------------------------------------------------- Init
Init ==
    /\ pc = [p \in Calls |-> "start"]
    /\ roomID = [p \in Calls |-> ""]
    /\ senderID = [p \in Calls |-> ""]
    /\ clientAddr = [p \in Calls |-> ""]
    /\ room = [p \in Calls |-> None]
    /\ rooms = [r \in Rooms |-> None]
    /\ clients = [o \in Calls |-> [a \in Addrs |-> None]]
    /\ users = [o \in Calls |-> [n \in Names |-> None]]
    /\ ch = [p \in Calls |-> <<>>]
    /\ closed = [p \in Calls |-> FALSE]
    /\ outb = [p \in Calls |-> "off"]
    /\ bmsg = [p \in Calls |-> NoEnv]
    /\ target = [p \in Calls |-> None]
    /\ nrecv = [p \in Calls |-> 0]
    /\ tosend = JoinMsgs
    /\ result = [p \in Calls |-> ""]
    /\ reject = [p \in Calls |-> NoEnv]
    /\ activeTransfers = [t \in XferIds |-> "none"]
    /\ crashed = FALSE
    /\ XferIdle
    /\ ChatServerIdle
    /\ StreamIdle

\* ---------------------------------------------------------------- channels
\* Two channels that are not Go's, to test the properties against: one hands
\* out the newest envelope first, one has no bound.
TrySendFront(q, e) == IF Len(q) < ChanCap THEN <<e>> \o q ELSE q
TrySendUnbounded(q, e) == Append(q, e)

\* `select { case client.ch <- msg: default: }` on an open channel: the
\* envelope is appended when the buffer has room and dropped otherwise.
TrySend(q, e) == IF Len(q) < ChanCap THEN Append(q, e) ELSE q

\* `ch <- msg` can proceed: the buffer has room, or the channel is closed
\* (and the send panics).
CanSend(c) == closed[c] \/ Len(ch[c]) < ChanCap

\* The keys of the entries Broadcast(msg, senderAddr) sends to: all but the
\* one the callback skips.
RangeKeys(o, senderAddr) ==
    {a \in Addrs : clients[o][a] # None /\ a # senderAddr}

\* Room.IsEmpty: Range finds no entry.
IsEmpty(o) == \A a \in Addrs : clients[o][a] = None

\* The content handlePrivateMessage forwards.
PrivateContent(sender, content) == <<"(private from ", sender, ") ">> \o content

\* The value of the ERROR command handlePrivateMessage sends on a miss.
NotFoundValue(recipientID) == <<"User '", recipientID, "' not found in this room.">>

\* The value of the ERROR command a rejected join is sent: err.Error().
TakenValue(id) == <<"username '", id, "' is already taken">>

\* --------------------------------------------------------------- scheduling
\* No sending goroutine has an envelope to take.
Settled == \A q \in Calls : outb[q] = "on" => ch[q] = <<>>

\* A handler takes its next step: the process has not panicked, and the
\* sending goroutines have written out what they had (see Drain).
Running == ~crashed /\ Settled

\* The calls are numbered in the order their initial envelopes arrive.
Arrives(p) == pc[p] = "start" /\ \A q \in Calls : q < p => pc[q] # "start"

\* ------------------------------------------------------- JoinConference
\* JoinConference returns: the locals of the call are gone.
Return(p) ==
    /\ roomID' = [roomID EXCEPT ![p] = ""]
    /\ senderID' = [senderID EXCEPT ![p] = ""]
    /\ clientAddr' = [clientAddr EXCEPT ![p] = ""]
    /\ room' = [room EXCEPT ![p] = None]
    /\ nrecv' = [nrecv EXCEPT ![p] = 0]

\* A JoinConference that is not the code's, to test the properties against:
\* it registers a Room under r1 before it looks at the initial envelope.
JoinInvalidLate(p) ==
    /\ Running
    /\ UNCHANGED <<xfervars, chatvars, streamvars>>
    /\ Arrives(p)
    /\ pc' = [pc EXCEPT ![p] = "done"]
    /\ result' = [result EXCEPT ![p] = "InvalidArgument"]
    /\ rooms' = [rooms EXCEPT !["r1"] = IF @ = None THEN p ELSE @]
    /\ UNCHANGED <<roomID, senderID, clientAddr, room, clients, users,
                   ch, closed, outb, bmsg, target, nrecv, tosend, reject,
                   activeTransfers, crashed>>

\* main.go:84-92: the initial Recv fails, or room_id or sender is empty.
JoinInvalid(p) ==
    /\ Running
    /\ UNCHANGED <<xfervars, chatvars, streamvars>>
    /\ Arrives(p)
    /\ pc' = [pc EXCEPT ![p] = "done"]
    /\ result' = [result EXCEPT ![p] = "InvalidArgument"]
    /\ UNCHANGED <<roomID, senderID, clientAddr, room, rooms, clients, users,
                   ch, closed, outb, bmsg, target, nrecv, tosend, reject,
                   activeTransfers, crashed>>

\* main.go:81-96: the initial envelope names a room and a sender;
\* s.rooms.LoadOrStore(roomID, NewRoom(roomID)).
JoinStart(p) ==
    /\ Running
    /\ UNCHANGED <<xfervars, chatvars, streamvars>>
    /\ Arrives(p)
    /\ \E r \in RoomChoices(p), who \in Identities(p) :
          /\ roomID' = [roomID EXCEPT ![p] = r]
          /\ senderID' = [senderID EXCEPT ![p] = who[1]]
          /\ clientAddr' = [clientAddr EXCEPT ![p] = who[2]]
          /\ IF rooms[r] = None
                THEN /\ rooms' = [rooms EXCEPT ![r] = p]
                     /\ room' = [room EXCEPT ![p] = p]
                ELSE /\ rooms' = rooms
                     /\ room' = [room EXCEPT ![p] = rooms[r]]
    /\ pc' = [pc EXCEPT ![p] = "addLoad"]
    /\ UNCHANGED <<clients, users, ch, closed, outb, bmsg, target,
                   nrecv, tosend, result, reject, activeTransfers, crashed>>

\* main.go:47-49 and 105-112: AddClient's r.users.Load(c.id).  On a hit the
\* call sends the ERROR command on its stream and returns AlreadyExists.
AddClientLoad(p) ==
    /\ Running
    /\ UNCHANGED <<xfervars, chatvars, streamvars>>
    /\ pc[p] = "addLoad"
    /\ IF users[room[p]][senderID[p]] # None
          THEN /\ pc' = [pc EXCEPT ![p] = "done"]
               /\ result' = [result EXCEPT ![p] = "AlreadyExists"]
               /\ reject' = [reject EXCEPT ![p] =
                     Env("", "", "command", "ERROR", TakenValue(senderID[p]),
                         None, 0)]
               /\ Return(p)
          ELSE /\ pc' = [pc EXCEPT ![p] = "addStore"]
               /\ UNCHANGED <<roomID, senderID, clientAddr, room, nrecv,
                              result, reject>>
    /\ UNCHANGED <<rooms, clients, users, ch, closed, outb, bmsg, target,
                   tosend, activeTransfers, crashed>>

\* main.go:50-52: r.clients.Store(c.addr, c); r.users.Store(c.id, c);
\* AddClient returns nil.  The two stores are one step: they are on different
\* maps, and every other step reads or writes one of the two maps only.
AddClientStore(p) ==
    /\ Running
    /\ UNCHANGED <<xfervars, chatvars, streamvars>>
    /\ pc[p] = "addStore"
    /\ clients' = [clients EXCEPT ![room[p]][clientAddr[p]] = p]
    /\ users' = [users EXCEPT ![room[p]][senderID[p]] = p]
    /\ pc' = [pc EXCEPT ![p] = "announce"]
    /\ UNCHANGED <<roomID, senderID, clientAddr, room, rooms, ch, closed, outb,
                   bmsg, target, nrecv, tosend, result, reject,
                   activeTransfers, crashed>>

\* main.go:173-187: Room.Broadcast(msg, senderAddr) on Room o: the queues
\* afterwards.  Range calls the callback for every entry of o.clients but
\* the sender's, and the callback's `select` appends msg where there is room
\* and drops it where there is none.  Range visits the entries one by one;
\* a Broadcast is one step here, which leaves out only how the sends of two
\* Broadcasts interleave across different recipients.
Broadcast(o, msg, senderAddr) ==
    LET hit == {clients[o][a] : a \in RangeKeys(o, senderAddr)}
    IN  [q \in Calls |-> IF q \in hit THEN TrySend(ch[q], msg) ELSE ch[q]]

\* main.go:131-134: room.Broadcast(USER_JOINED, "").
Announce(p) ==
    /\ Running
    /\ UNCHANGED <<xfervars, chatvars, streamvars>>
    /\ pc[p] = "announce"
    /\ ch' = Broadcast(room[p], UserJoined(p), "")
    /\ pc' = [pc EXCEPT ![p] = "welcome"]
    /\ UNCHANGED <<roomID, senderID, clientAddr, room, rooms, clients, users,
                   closed, outb, bmsg, target, nrecv, tosend, result, reject,
                   activeTransfers, crashed>>

\* main.go:137-150: client.ch <- WELCOME, a blocking send, and then the
\* sending goroutine is started.
SendWelcome(p) ==
    /\ Running
    /\ UNCHANGED <<xfervars, chatvars, streamvars>>
    /\ pc[p] = "welcome"
    /\ CanSend(p)
    /\ ch' = [ch EXCEPT ![p] = Append(@, Welcome(p))]
    /\ outb' = [outb EXCEPT ![p] = "on"]
    /\ pc' = [pc EXCEPT ![p] = "recv"]
    /\ UNCHANGED <<roomID, senderID, clientAddr, room, rooms, clients, users,
                   closed, bmsg, target, nrecv, tosend, result, reject,
                   activeTransfers, crashed>>

\* The envelope a participant sends as its n-th: it fills in its own sender
\* and room.
Inbound(p, k, t, v) ==
    Env(senderID[p], roomID[p], k, t, v, p, nrecv[p] + 1)

\* Payloads the switch of main.go:158-167 sends to its default branch.
DefaultKinds == {"text", "audio"}

\* main.go:154-156: the client has half-closed its stream or its connection
\* has broken: Recv returns io.EOF or an error, JoinConference returns and
\* its deferred function starts.
RecvEnd(p) ==
    /\ Running
    /\ UNCHANGED <<xfervars, chatvars, streamvars>>
    /\ pc[p] = "recv"
    /\ pc' = [pc EXCEPT ![p] = "release"]
    /\ result' = [result EXCEPT ![p] = "Ended"]
    /\ UNCHANGED <<roomID, senderID, clientAddr, room, rooms, clients, users,
                   ch, closed, outb, bmsg, target, nrecv, tosend, reject,
                   activeTransfers, crashed>>

\* main.go:154 and 165-166: Recv returns a text, audio or command envelope;
\* room.Broadcast(msg, client.addr).
RecvDefault(p) ==
    /\ Running
    /\ UNCHANGED <<xfervars, chatvars, streamvars>>
    /\ pc[p] = "recv"
    /\ outb[p] # "dead"
    /\ tosend > 0
    /\ \E k \in DefaultKinds :
          ch' = Broadcast(room[p],
                          Inbound(p, k, IF k = "command" THEN "USER_LEFT" ELSE "",
                                  <<MsgText[nrecv[p] + 1]>>),
                          clientAddr[p])
    /\ nrecv' = [nrecv EXCEPT ![p] = @ + 1]
    /\ tosend' = tosend - 1
    /\ UNCHANGED <<pc, roomID, senderID, clientAddr, room, rooms, clients,
                   users, closed, outb, bmsg, target, result, reject,
                   activeTransfers, crashed>>

\* main.go:154 and 161-163: Recv returns a file announcement;
\* s.activeTransfers.Store(TransferId, &broadcastTransfer{}).  The Transfer
\* stored is a new one: it has no sender and no receivers, and what was
\* stored under the id before is not in the registry any more.
RecvFileAnnouncement(p) ==
    /\ Running
    /\ UNCHANGED <<xfervars, chatvars>>
    /\ pc[p] = "recv"
    /\ outb[p] # "dead"
    /\ tosend > 0
    /\ \E t \in TransferIds :
          /\ activeTransfers' = [activeTransfers EXCEPT ![t] = "broadcast"]
          /\ txSender' = [txSender EXCEPT ![t] = None]
          /\ txReceiver' = [txReceiver EXCEPT ![t] = None]
          /\ txReceivers' = [txReceivers EXCEPT ![t] = [a \in Addrs |-> None]]
          /\ bmsg' = [bmsg EXCEPT ![p] = Inbound(p, "file", "", <<t>>)]
    /\ UNCHANGED <<tfPc, tfId, tfRole, tfAddr, tfKind, tfResult, st, sent, got,
                   proxies>>
    /\ nrecv' = [nrecv EXCEPT ![p] = @ + 1]
    /\ tosend' = tosend - 1
    /\ pc' = [pc EXCEPT ![p] = "fileBcast"]
    /\ UNCHANGED <<roomID, senderID, clientAddr, room, rooms, clients, users,
                   ch, closed, outb, target, result, reject,
                   crashed>>

\* main.go:164: room.Broadcast(msg, client.addr) of the announcement.
FileBroadcast(p) ==
    /\ Running
    /\ UNCHANGED <<xfervars, chatvars, streamvars>>
    /\ pc[p] = "fileBcast"
    /\ ch' = Broadcast(room[p], bmsg[p], clientAddr[p])
    /\ bmsg' = [bmsg EXCEPT ![p] = NoEnv]
    /\ pc' = [pc EXCEPT ![p] = "recv"]
    /\ UNCHANGED <<roomID, senderID, clientAddr, room, rooms, clients, users,
                   closed, outb, target, nrecv, tosend, result, reject,
                   activeTransfers, crashed>>

\* main.go:196-207: the envelope handlePrivateMessage forwards on a hit.
PrivateForward(p, recipientID, content) ==
    [Env(senderID[p], roomID[p], "text", "",
         PrivateContent(senderID[p], content), p, nrecv[p] + 1)
     EXCEPT !.to = recipientID]

\* An error envelope that is not the code's, to test the properties against:
\* it does not say who was not found.
PrivateNotFoundAnon(recipientID) ==
    [Env("Server", "", "command", "ERROR", <<"User not found.">>, None, 0)
     EXCEPT !.to = recipientID]

\* main.go:212-217: the envelope handlePrivateMessage sends back on a miss.
PrivateNotFound(recipientID) ==
    [Env("Server", "", "command", "ERROR", NotFoundValue(recipientID), None, 0)
     EXCEPT !.to = recipientID]

\* main.go:154, 159-160 and 190-191: Recv returns a private message;
\* handlePrivateMessage's room.users.Load(recipientID).
RecvPrivate(p) ==
    /\ Running
    /\ UNCHANGED <<xfervars, chatvars, streamvars>>
    /\ pc[p] = "recv"
    /\ outb[p] # "dead"
    /\ tosend > 0
    /\ \E r \in Names :
          LET c == users[room[p]][r]
          IN  IF c # None
                THEN /\ target' = [target EXCEPT ![p] = c]
                     /\ bmsg' = [bmsg EXCEPT ![p] =
                           PrivateForward(p, r, <<MsgText[nrecv[p] + 1]>>)]
                     /\ pc' = [pc EXCEPT ![p] = "pmSend"]
                ELSE /\ target' = [target EXCEPT ![p] = p]
                     /\ bmsg' = [bmsg EXCEPT ![p] = PrivateNotFound(r)]
                     /\ pc' = [pc EXCEPT ![p] = "pmErr"]
    /\ nrecv' = [nrecv EXCEPT ![p] = @ + 1]
    /\ tosend' = tosend - 1
    /\ UNCHANGED <<roomID, senderID, clientAddr, room, rooms, clients, users,
                   ch, closed, outb, result, reject,
                   activeTransfers, crashed>>

\* main.go:208 and 218: recipient.ch <- fwdMsg, or sender.ch <- notFoundMsg:
\* a blocking send, which panics on a closed channel.
PrivateSend(p) ==
    /\ Running
    /\ UNCHANGED <<xfervars, chatvars, streamvars>>
    /\ pc[p] \in {"pmSend", "pmErr"}
    /\ CanSend(target[p])
    /\ IF closed[target[p]]
         THEN /\ crashed' = TRUE
              /\ UNCHANGED <<pc, ch, target, bmsg>>
         ELSE /\ ch' = [ch EXCEPT ![target[p]] = Append(@, bmsg[p])]
              /\ target' = [target EXCEPT ![p] = None]
              /\ bmsg' = [bmsg EXCEPT ![p] = NoEnv]
              /\ pc' = [pc EXCEPT ![p] = "recv"]
              /\ UNCHANGED crashed
    /\ UNCHANGED <<roomID, senderID, clientAddr, room, rooms, clients, users,
                   closed, outb, nrecv, tosend, result, reject,
                   activeTransfers>>

\* ------------------------------------------- the deferred function, 115-128
\* main.go:56-59 and 116-117: room.RemoveClient(client), which is
\* r.clients.Delete(c.addr) and r.users.Delete(c.id), and close(client.ch).
\* One step, for the reason given at AddClientStore; what the closed channel
\* still holds goes to nobody but the call's own sending goroutine.
RemoveClient(p) ==
    /\ Running
    /\ UNCHANGED <<xfervars, chatvars, streamvars>>
    /\ pc[p] = "release"
    /\ clients' = [clients EXCEPT ![room[p]][clientAddr[p]] = None]
    /\ users' = [users EXCEPT ![room[p]][senderID[p]] = None]
    /\ closed' = [closed EXCEPT ![p] = TRUE]
    /\ ch' = [ch EXCEPT ![p] = <<>>]
    /\ outb' = [outb EXCEPT ![p] = "off"]
    /\ pc' = [pc EXCEPT ![p] = "relEmpty"]
    /\ UNCHANGED <<roomID, senderID, clientAddr, room, rooms, bmsg, target,
                   nrecv, tosend, result, reject, activeTransfers, crashed>>

\* main.go:119: room.IsEmpty().
CheckEmpty(p) ==
    /\ Running
    /\ UNCHANGED <<xfervars, chatvars, streamvars>>
    /\ pc[p] = "relEmpty"
    /\ pc' = [pc EXCEPT ![p] = IF IsEmpty(room[p]) THEN "relDelete" ELSE "relLeft"]
    /\ UNCHANGED <<roomID, senderID, clientAddr, room, rooms, clients, users,
                   ch, closed, outb, bmsg, target, nrecv, tosend, result, reject,
                   activeTransfers, crashed>>

\* main.go:123-126: room.Broadcast(USER_LEFT, ""); the call returns, its
\* Client is garbage and its sending goroutine finds the stream finished.
AnnounceLeft(p) ==
    /\ Running
    /\ UNCHANGED <<xfervars, chatvars, streamvars>>
    /\ pc[p] = "relLeft"
    /\ ch' = [Broadcast(room[p], UserLeft(p), "") EXCEPT ![p] = <<>>]
    /\ outb' = [outb EXCEPT ![p] = "off"]
    /\ pc' = [pc EXCEPT ![p] = "done"]
    /\ Return(p)
    /\ UNCHANGED <<rooms, clients, users, closed, bmsg, target, tosend,
                   result, reject, activeTransfers, crashed>>

\* main.go:120: s.rooms.Delete(roomID); the call returns.
DeleteRoom(p) ==
    /\ Running
    /\ UNCHANGED <<xfervars, chatvars, streamvars>>
    /\ pc[p] = "relDelete"
    /\ rooms' = [rooms EXCEPT ![roomID[p]] = None]
    /\ pc' = [pc EXCEPT ![p] = "done"]
    /\ ch' = [ch EXCEPT ![p] = <<>>]
    /\ outb' = [outb EXCEPT ![p] = "off"]
    /\ Return(p)
    /\ UNCHANGED <<clients, users, closed, bmsg, target, tosend, result,
                   reject, activeTransfers, crashed>>

\* ------------------------------------------ the sending goroutine, 142-150
\* `for msg := range client.ch`: the next envelope is taken and written to
\* the stream.  The write fails when the client's connection has broken, and
\* the goroutine returns; Recv then fails too.
\*
\* Scheduling: a sending goroutine that has an envelope to take runs before
\* any handler takes its next step (Running above), so the queue of a client
\* whose goroutine is alive is empty whenever a handler looks at it.  A queue
\* fills up before its goroutine is started and after it has returned.
Drain(p) ==
    /\ ~crashed
    /\ UNCHANGED <<xfervars, chatvars, streamvars>>
    /\ outb[p] = "on"
    /\ ch[p] # <<>>
    /\ ch' = [ch EXCEPT ![p] = Tail(@)]
    /\ \E ok \in {TRUE} \cup {FALSE : x \in Slow \cap {p}} :
          outb' = [outb EXCEPT ![p] = IF ok THEN @ ELSE "dead"]
    /\ UNCHANGED <<pc, roomID, senderID, clientAddr, room, rooms, clients,
                   users, closed, bmsg, target, nrecv, tosend, result,
                   reject, activeTransfers, crashed>>

Next ==
    \E p \in Calls :
        \/ JoinInvalid(p)
        \/ JoinStart(p)
        \/ AddClientLoad(p)
        \/ AddClientStore(p)
        \/ Announce(p)
        \/ SendWelcome(p)
        \/ RecvEnd(p)
        \/ RecvDefault(p)
        \/ RecvFileAnnouncement(p)
        \/ FileBroadcast(p)
        \/ RecvPrivate(p)
        \/ PrivateSend(p)
        \/ RemoveClient(p)
        \/ CheckEmpty(p)
        \/ AnnounceLeft(p)
        \/ DeleteRoom(p)
        \/ Drain(p)

Spec == Init /\ [][Next]_vars

\* ------------------------------------------------------------- a busy room
\* Room r1 some time after the first and the third call have joined it, as
\* alice and as bob: both have been welcomed, every queue has been written
\* out, and their clients go on to send MaxMsgs envelopes.  The other calls
\* have not started.
InRoom(p) == p \in {1, 3}

ChatInit ==
    /\ pc = [p \in Calls |-> IF InRoom(p) THEN "recv" ELSE "start"]
    /\ roomID = [p \in Calls |-> IF InRoom(p) THEN "r1" ELSE ""]
    /\ senderID = [p \in Calls |->
          IF p = 1 THEN "alice" ELSE IF p = 3 THEN "bob" ELSE ""]
    /\ clientAddr = [p \in Calls |-> IF InRoom(p) THEN AddrSeq[p] ELSE ""]
    /\ room = [p \in Calls |-> IF InRoom(p) THEN 1 ELSE None]
    /\ rooms = [r \in Rooms |-> IF r = "r1" THEN 1 ELSE None]
    /\ clients = [o \in Calls |-> [a \in Addrs |->
          IF o = 1 /\ a = "a1" THEN 1 ELSE IF o = 1 /\ a = "a3" THEN 3 ELSE None]]
    /\ users = [o \in Calls |-> [n \in Names |->
          IF o = 1 /\ n = "alice" THEN 1 ELSE IF o = 1 /\ n = "bob" THEN 3 ELSE None]]
    /\ ch = [p \in Calls |-> <<>>]
    /\ closed = [p \in Calls |-> FALSE]
    /\ outb = [p \in Calls |-> IF InRoom(p) THEN "on" ELSE "off"]
    /\ bmsg = [p \in Calls |-> NoEnv]
    /\ target = [p \in Calls |-> None]
    /\ nrecv = [p \in Calls |-> 0]
    /\ tosend = MaxMsgs
    /\ result = [p \in Calls |-> ""]
    /\ reject = [p \in Calls |-> NoEnv]
    /\ activeTransfers = [t \in XferIds |-> "none"]
    /\ crashed = FALSE
    /\ XferIdle
    /\ ChatServerIdle
    /\ StreamIdle

SpecChat == ChatInit /\ [][Next]_vars

\* ---------------------------------------------------------- a second release
\* Room.RemoveClient (main.go:56-59) called once more for a Client that the
\* deferred function has already removed and that has not been dropped yet.
\* JoinConference never does this; the specification below adds the call to
\* the busy room, to see what the operation does in the states it can meet.
RemoveClientAgain(p) ==
    /\ Running
    /\ UNCHANGED <<xfervars, chatvars, streamvars>>
    /\ pc[p] = "relEmpty"
    /\ clients' = [clients EXCEPT ![room[p]][clientAddr[p]] = None]
    /\ users' = [users EXCEPT ![room[p]][senderID[p]] = None]
    /\ UNCHANGED <<pc, roomID, senderID, clientAddr, room, rooms, ch, closed,
                   outb, bmsg, target, nrecv, tosend, result, reject,
                   activeTransfers, crashed>>

NextRelease == Next \/ \E p \in Calls : RemoveClientAgain(p)

SpecRelease == ChatInit /\ [][NextRelease]_vars

\* ------------------------------------------------ commands from participants
\* The command types a client puts into an envelope of its own.
CommandTypes == {"USER_LEFT", "ERROR"}

\* main.go:154 and 165-166: Recv returns an envelope whose payload is a
\* Command; the switch has no case for it, so it takes the default branch:
\* room.Broadcast(msg, client.addr).
RecvCommand(p) ==
    /\ Running
    /\ UNCHANGED <<xfervars, chatvars, streamvars>>
    /\ pc[p] = "recv"
    /\ outb[p] # "dead"
    /\ tosend > 0
    /\ \E t \in CommandTypes :
          ch' = Broadcast(room[p],
                          Inbound(p, "command", t, <<MsgText[nrecv[p] + 1]>>),
                          clientAddr[p])
    /\ nrecv' = [nrecv EXCEPT ![p] = @ + 1]
    /\ tosend' = tosend - 1
    /\ UNCHANGED <<pc, roomID, senderID, clientAddr, room, rooms, clients,
                   users, closed, outb, bmsg, target, result, reject,
                   activeTransfers, crashed>>

NextCommand == Next \/ \E p \in Calls : RecvCommand(p)

\* The busy room, whose members also send commands.
SpecCommand == ChatInit /\ [][NextCommand]_vars

\* ------------------------------------------------- file-transfer arbitration
\* main.go:242-281.  A RequestFileTransfer call q makes its own respChan,
\* named by q like the other objects; a RespondFileTransfer call is k.  A
\* step is what a call does between two releases of transferMu, a channel
\* operation or a sync.Map operation.  The requester is "alice" and the
\* destination "bob"; the room and the transfer id are the call's choice.
Requester == "alice"
Destination == "bob"

\* Capacity of respChan (main.go:244).
RespCap == 1

\* main.go:249-252: the notification, with the fragments of the content
\* fmt.Sprintf joins with ":" (file name, size and timestamp are fixed).
\* Its `to` names req.Recipient, which is not on the wire.
FileRequest(t, r) ==
    [Env("Sistema-FileTransfer", r, "text", "",
         <<"FILE_REQUEST", t, Requester, "f.bin", "1", "0">>, None, 0)
     EXCEPT !.to = Destination]

\* The response a responder sends, and the one the timeout makes.
Resp(t, a) == [id |-> t, accepted |-> a]

\* main.go:244-248: respChan is made and stored under req.TransferId,
\* replacing what was there.
ReqRegister(q) ==
    /\ Running
    /\ UNCHANGED <<chatvars, streamvars>>
    /\ reqPc[q] = "start"
    /\ \A i \in Reqs : i < q => reqPc[i] # "start"
    /\ \E t \in XferIds :
          /\ reqTid' = [reqTid EXCEPT ![q] = t]
          /\ transferResponses' = [transferResponses EXCEPT ![t] = q]
    /\ reqPc' = [reqPc EXCEPT ![q] = "notify"]
    /\ UNCHANGED <<joinvars, respChan, reqResult, rspPc, rspMsg, rspChan,
                   rspResult, tfCount, tfLast, attached>>

\* main.go:253: the room is looked up and, when it is there, the notification
\* is Broadcast with no address to skip.
ReqNotify(q) ==
    /\ Running
    /\ UNCHANGED <<chatvars, streamvars>>
    /\ reqPc[q] = "notify"
    /\ \E r \in Rooms :
          ch' = IF rooms[r] # None
                THEN Broadcast(rooms[r], FileRequest(reqTid[q], r), "")
                ELSE ch
    /\ reqPc' = [reqPc EXCEPT ![q] = "wait"]
    /\ UNCHANGED <<pc, roomID, senderID, clientAddr, room, rooms, clients,
                   users, closed, outb, bmsg, target, nrecv, tosend, result,
                   reject, activeTransfers, crashed>>
    /\ UNCHANGED <<reqTid, respChan, reqResult, transferResponses, rspPc,
                   rspMsg, rspChan, rspResult, tfCount, tfLast, attached>>

\* A RequestFileTransfer that is not the code's, to test the properties
\* against: it records the Transfer whatever the response says.
StoreAlways(resp, kind) == "p2p"

\* main.go:256: the Transfer Registry entry after the response has been read.
StoreIfAccepted(resp, kind) == IF resp.accepted THEN "p2p" ELSE kind

\* main.go:255-257: the select takes the response out of respChan, stores a
\* p2pTransfer when it says accepted, and returns the response.
ReqReceive(q) ==
    /\ Running
    /\ UNCHANGED <<chatvars, streamvars>>
    /\ reqPc[q] = "wait"
    /\ respChan[q] # <<>>
    /\ LET resp == Head(respChan[q])
       IN  /\ activeTransfers' =
                 [activeTransfers EXCEPT ![reqTid[q]] = StoreIfAccepted(resp, @)]
           /\ reqResult' = [reqResult EXCEPT ![q] = resp]
    /\ respChan' = [respChan EXCEPT ![q] = Tail(@)]
    /\ reqPc' = [reqPc EXCEPT ![q] = "deferred"]
    /\ UNCHANGED <<pc, roomID, senderID, clientAddr, room, rooms, clients,
                   users, ch, closed, outb, bmsg, target, nrecv, tosend,
                   result, reject, crashed>>
    /\ UNCHANGED <<reqTid, transferResponses, rspPc, rspMsg, rspChan,
                   rspResult, tfCount, tfLast, attached>>

\* main.go:258-259: the timer fires, the call returns the rejection.
ReqTimeout(q) ==
    /\ Running
    /\ UNCHANGED <<chatvars, streamvars>>
    /\ reqPc[q] = "wait"
    /\ reqResult' = [reqResult EXCEPT ![q] = Resp(reqTid[q], FALSE)]
    /\ reqPc' = [reqPc EXCEPT ![q] = "deferred"]
    /\ UNCHANGED <<joinvars, reqTid, respChan, transferResponses, rspPc,
                   rspMsg, rspChan, rspResult, tfCount, tfLast, attached>>

\* A deferred function that is not the code's, to test the properties
\* against: it leaves the entry in the map.
DeleteNothing(m, t) == m

\* main.go:248: delete(s.transferResponses, req.TransferId).
DeleteEntry(m, t) == [m EXCEPT ![t] = None]

\* main.go:248: the deferred function, and the call has returned.
ReqDeferred(q) ==
    /\ Running
    /\ UNCHANGED <<chatvars, streamvars>>
    /\ reqPc[q] = "deferred"
    /\ transferResponses' = DeleteEntry(transferResponses, reqTid[q])
    /\ reqPc' = [reqPc EXCEPT ![q] = "done"]
    /\ UNCHANGED <<joinvars, reqTid, respChan, reqResult, rspPc, rspMsg,
                   rspChan, rspResult, tfCount, tfLast, attached>>

\* main.go:263-266: the channel is looked up under resp.TransferId; a miss
\* is the error "invalid transfer ID".
RespLookup(k) ==
    /\ Running
    /\ UNCHANGED <<chatvars, streamvars>>
    /\ rspPc[k] = "start"
    /\ \A i \in Resps : i < k => rspPc[i] # "start"
    /\ \E t \in XferIds, a \in BOOLEAN :
          /\ rspMsg' = [rspMsg EXCEPT ![k] = Resp(t, a)]
          /\ IF transferResponses[t] = None
             THEN /\ rspResult' = [rspResult EXCEPT ![k] = "invalid transfer ID"]
                  /\ rspPc' = [rspPc EXCEPT ![k] = "done"]
                  /\ UNCHANGED rspChan
             ELSE /\ rspChan' = [rspChan EXCEPT ![k] = transferResponses[t]]
                  /\ rspPc' = [rspPc EXCEPT ![k] = "send"]
                  /\ UNCHANGED rspResult
    /\ UNCHANGED <<joinvars, reqPc, reqTid, respChan, reqResult,
                   transferResponses, tfCount, tfLast, attached>>

\* main.go:267-268: respChan <- resp, a blocking send, and resp is returned.
RespSend(k) ==
    /\ Running
    /\ UNCHANGED <<chatvars, streamvars>>
    /\ rspPc[k] = "send"
    /\ Len(respChan[rspChan[k]]) < RespCap
    /\ respChan' = [respChan EXCEPT ![rspChan[k]] = Append(@, rspMsg[k])]
    /\ rspResult' = [rspResult EXCEPT ![k] = "ok"]
    /\ rspPc' = [rspPc EXCEPT ![k] = "done"]
    /\ UNCHANGED <<joinvars, reqPc, reqTid, reqResult, transferResponses,
                   rspMsg, rspChan, tfCount, tfLast, attached>>

\* main.go:270-281 with 282-306: a TransferFile call with both metadata
\* values.  A miss in the Transfer Registry is the error "transfer not
\* initiated".  A p2pTransfer takes the stream in the slot of its role
\* (283-288); a broadcastTransfer takes a sender once (295-297) and any
\* receiver (300).  What the attached streams carry is left out.
TransferFile ==
    /\ Running
    /\ UNCHANGED <<chatvars, streamvars>>
    /\ tfCount < MaxTf
    /\ tfCount' = tfCount + 1
    /\ \E t \in XferIds, role \in Roles :
          LET kind == activeTransfers[t]
              dup == kind = "broadcast" /\ role = "sender"
                     /\ "sender" \in attached[t]
              outcome == IF kind = "none" THEN "transfer not initiated"
                         ELSE IF dup THEN "broadcast sender already exists"
                         ELSE "attached"
          IN  /\ tfLast' = [id |-> t, role |-> role, outcome |-> outcome]
              /\ attached' = IF outcome = "attached"
                             THEN [attached EXCEPT ![t] = @ \cup {role}]
                             ELSE attached
    /\ UNCHANGED <<joinvars, reqPc, reqTid, respChan, reqResult,
                   transferResponses, rspPc, rspMsg, rspChan, rspResult>>

\* The file-transfer calls against the busy room, whose members stay and
\* send nothing meanwhile.
NextXfer ==
    \/ \E q \in Reqs : ReqRegister(q)
    \/ \E q \in Reqs : ReqNotify(q)
    \/ \E q \in Reqs : ReqReceive(q)
    \/ \E q \in Reqs : ReqTimeout(q)
    \/ \E q \in Reqs : ReqDeferred(q)
    \/ \E k \in Resps : RespLookup(k)
    \/ \E k \in Resps : RespSend(k)
    \/ TransferFile
    \/ \E p \in Calls : Drain(p)

SpecXfer == ChatInit /\ [][NextXfer]_vars

\* ------------------------------------------ chat-server: file-transfer calls
\* src/chat-server/main.go:299-393.  The rendezvous is one channel per room
\* and sender, made by the first request of that sender and never removed.
\* Room r1 exists and keeps its members; r2 does not exist.

\* Capacity of the channel (chat-server main.go:346).
ChatRespCap == 10

\* The other member of the room: the request's recipient.
Other(n) == IF n = "alice" THEN "bob" ELSE "alice"

\* chat-server main.go:111-121, Room.sendDirect: the members the message is
\* sent to, the one whose name is the recipient's.
SendDirect(recipient) == {n \in ChatMembers : n = recipient}

\* chat-server main.go:304-338: the room is looked up; when it is missing the
\* call returns the rejection; otherwise the notification is posted for the
\* recipient (the room actor passes it to sendDirect) and the transfer is
\* recorded in fileTransfers: a new fileTransfer, named by the call, with
\* accepted false and no stream, replaces what the id had.
ChatRequest(q) ==
    /\ chatReqPc[q] = "start"
    /\ \A i \in Reqs : i < q => chatReqPc[i] # "start"
    /\ \E t \in XferIds, n \in ChatMembers, r \in Rooms :
          IF r # "r1"
          THEN /\ chatReqResult' = [chatReqResult EXCEPT ![q] = Resp(t, FALSE)]
               /\ chatReqPc' = [chatReqPc EXCEPT ![q] = "done"]
               /\ UNCHANGED <<chatReqTid, chatReqSender, inbox, fileTransfers,
                              chatEntry>>
          ELSE /\ chatReqTid' = [chatReqTid EXCEPT ![q] = t]
               /\ chatEntry' = [chatEntry EXCEPT ![t] = q]
               /\ chatReqSender' = [chatReqSender EXCEPT ![q] = n]
               /\ inbox' = [m \in ChatMembers |->
                     IF m \in SendDirect(Other(n)) THEN inbox[m] \cup {t}
                     ELSE inbox[m]]
               /\ fileTransfers' = [fileTransfers EXCEPT ![t] = "pending"]
               /\ chatReqPc' = [chatReqPc EXCEPT ![q] = "await"]
               /\ UNCHANGED chatReqResult
    /\ UNCHANGED <<joinvars, xfervars, streamvars, chanMade, senderRespChan,
                   nResponds, chatfilevars>>

\* chat-server main.go:341-349: the sender's channel is made unless it is
\* there already.
ChatAwait(q) ==
    /\ chatReqPc[q] = "await"
    /\ chanMade' = [chanMade EXCEPT ![chatReqSender[q]] = TRUE]
    /\ chatReqPc' = [chatReqPc EXCEPT ![q] = "wait"]
    /\ UNCHANGED <<joinvars, xfervars, streamvars, chatEntry, chatfilevars, chatReqTid, chatReqSender,
                   chatReqResult, senderRespChan, fileTransfers, inbox,
                   nResponds>>

\* chat-server main.go:352-354: the select takes a response out of the
\* sender's channel and returns it.
ChatReceive(q) ==
    /\ chatReqPc[q] = "wait"
    /\ senderRespChan[chatReqSender[q]] # <<>>
    /\ chatReqResult' =
          [chatReqResult EXCEPT ![q] = Head(senderRespChan[chatReqSender[q]])]
    /\ senderRespChan' = [senderRespChan EXCEPT ![chatReqSender[q]] = Tail(@)]
    /\ chatReqPc' = [chatReqPc EXCEPT ![q] = "done"]
    /\ UNCHANGED <<joinvars, xfervars, streamvars, chatEntry, chatfilevars, chatReqTid, chatReqSender, chanMade,
                   fileTransfers, inbox, nResponds>>

\* chat-server main.go:355-364: the timer fires, the call returns the
\* rejection.
ChatTimeout(q) ==
    /\ chatReqPc[q] = "wait"
    /\ chatReqResult' = [chatReqResult EXCEPT ![q] = Resp(chatReqTid[q], FALSE)]
    /\ chatReqPc' = [chatReqPc EXCEPT ![q] = "done"]
    /\ UNCHANGED <<joinvars, xfervars, streamvars, chatEntry, chatfilevars, chatReqTid, chatReqSender, chanMade,
                   senderRespChan, fileTransfers, inbox, nResponds>>

\* chat-server main.go:368-393, RespondFileTransfer: the fileTransfers entry
\* takes the answer, and the response is put into the channel of
\* resp.Recipient when there is one and it has room.  The responder is a
\* member answering a request it was notified of.
ChatRespond ==
    /\ nResponds < NResps
    /\ nResponds' = nResponds + 1
    /\ \E t \in XferIds, a \in BOOLEAN, n \in ChatMembers :
          /\ t \in inbox[Other(n)]
          /\ fileTransfers' =
                [fileTransfers EXCEPT ![t] =
                    IF @ = "none" THEN @
                    ELSE IF a THEN "accepted" ELSE "pending"]
          /\ senderRespChan' =
                [senderRespChan EXCEPT ![n] =
                    IF chanMade[n] /\ Len(@) < ChatRespCap
                    THEN Append(@, Resp(t, a)) ELSE @]
    /\ UNCHANGED <<joinvars, xfervars, streamvars, chatEntry, chatfilevars, chatReqPc, chatReqTid, chatReqSender,
                   chatReqResult, chanMade, inbox>>

NextChatServer ==
    \/ \E q \in Reqs : ChatRequest(q)
    \/ \E q \in Reqs : ChatAwait(q)
    \/ \E q \in Reqs : ChatReceive(q)
    \/ \E q \in Reqs : ChatTimeout(q)
    \/ ChatRespond

SpecChatServer == Init /\ [][NextChatServer]_vars

\* ------------------------------------------------ chat-server: TransferFile
\* src/chat-server/main.go:396-502.  The fileTransfer a handler works on is
\* the one it found under the id, named by the RequestFileTransfer call that
\* stored it; the handler keeps it when the id gets another one.

\* The roles a TransferFile call puts into its metadata.
ChatRoles == Roles \cup {"viewer"}

\* chat-server main.go:416-422: `transfer, ok := s.fileTransfers[transferID]`.
Found(e) == e # "none"

\* The number of TransferFile calls that have got past the lookup.
ChatStored ==
    Cardinality({q \in Reqs : senderStream[q]})
        + Cardinality({q \in Reqs : receiverStream[q]})

\* chat-server main.go:415-431 and 491-505: under transferMu the entry is
\* looked up, a miss is the error "transferencia no encontrada"; a sender's
\* stream goes into senderStream and its handler starts to wait for the
\* receiver; a receiver's goes into receiverStream and its handler blocks
\* (main.go:500); any other role is the error "rol desconocido".  One call
\* of each role comes for a fileTransfer, and MaxTf calls in all.
ChatTfOpen ==
    /\ ChatStored < MaxTf
    /\ \E t \in XferIds, role \in ChatRoles :
          LET q == chatEntry[t]
          IN  IF ~Found(fileTransfers[t])
              THEN UNCHANGED <<senderStream, receiverStream, chatTfPc>>
              ELSE IF role = "sender"
              THEN /\ chatTfPc[q] = "none"
                   /\ senderStream' = [senderStream EXCEPT ![q] = TRUE]
                   /\ chatTfPc' = [chatTfPc EXCEPT ![q] = "wait"]
                   /\ UNCHANGED receiverStream
              ELSE IF role = "receiver"
              THEN /\ ~receiverStream[q]
                   /\ receiverStream' = [receiverStream EXCEPT ![q] = TRUE]
                   /\ UNCHANGED <<senderStream, chatTfPc>>
              ELSE UNCHANGED <<senderStream, receiverStream, chatTfPc>>
    /\ UNCHANGED <<joinvars, xfervars, streamvars, chatReqPc, chatReqTid,
                   chatReqSender, chatReqResult, chanMade, senderRespChan,
                   fileTransfers, inbox, nResponds, chatEntry, chatGot>>

\* chat-server main.go:441-448: the ticker finds receiverStream set.
ChatTfStart(q) ==
    /\ chatTfPc[q] = "wait"
    /\ receiverStream[q]
    /\ chatTfPc' = [chatTfPc EXCEPT ![q] = "relay"]
    /\ UNCHANGED <<joinvars, xfervars, streamvars, chatReqPc, chatReqTid,
                   chatReqSender, chatReqResult, chanMade, senderRespChan,
                   fileTransfers, inbox, nResponds, chatEntry, senderStream,
                   receiverStream, chatGot>>

\* chat-server main.go:438-440: the 30 s timer fires first; the handler
\* returns the error and leaves the entry and its senderStream as they are.
ChatTfTimeout(q) ==
    /\ chatTfPc[q] = "wait"
    /\ chatTfPc' = [chatTfPc EXCEPT ![q] = "done"]
    /\ UNCHANGED <<joinvars, xfervars, streamvars, chatReqPc, chatReqTid,
                   chatReqSender, chatReqResult, chanMade, senderRespChan,
                   fileTransfers, inbox, nResponds, chatEntry, senderStream,
                   receiverStream, chatGot>>

\* chat-server main.go:455-489, one round of the relay loop: Recv returns a
\* chunk, which is sent on receiverStream, or io.EOF, or an error.  After the
\* chunk with IsLast and after io.EOF the loop ends and
\* delete(s.fileTransfers, transferID) runs; after an error the handler
\* returns at once.
ChatTfRelay(q) ==
    /\ chatTfPc[q] = "relay"
    /\ \E ev \in {"chunk", "last", "eof", "err"} :
          /\ ev \in {"chunk", "last"} => chatGot[q] < MaxChunks
          /\ chatGot' = [chatGot EXCEPT ![q] =
                            IF ev \in {"chunk", "last"} THEN @ + 1 ELSE @]
          /\ chatTfPc' = [chatTfPc EXCEPT ![q] =
                            IF ev = "chunk" THEN "relay" ELSE "done"]
          /\ IF ev \in {"last", "eof"}
             THEN /\ fileTransfers' =
                        [fileTransfers EXCEPT ![chatReqTid[q]] = "none"]
                  /\ chatEntry' = [chatEntry EXCEPT ![chatReqTid[q]] = None]
             ELSE UNCHANGED <<fileTransfers, chatEntry>>
    /\ UNCHANGED <<joinvars, xfervars, streamvars, chatReqPc, chatReqTid,
                   chatReqSender, chatReqResult, chanMade, senderRespChan,
                   inbox, nResponds, senderStream, receiverStream>>

NextChatFile ==
    \/ NextChatServer
    \/ ChatTfOpen
    \/ \E q \in Reqs : ChatTfStart(q)
    \/ \E q \in Reqs : ChatTfTimeout(q)
    \/ \E q \in Reqs : ChatTfRelay(q)

SpecChatFile == Init /\ [][NextChatFile]_vars

\* ------------------------------------------------------ file-transfer streams
\* main.go:270-326.  A TransferFile call is a stream x, named like the other
\* objects by the number of the call.  Its client's end is open, has
\* half-closed (eof: Recv on x fails, Send still works) or is broken (Recv
\* and Send fail, the stream's context is done).  A chunk is the stream it
\* was read from, its position there and its is_last flag.  The Transfer
\* objects are named by their id: none is stored twice while streams run.

\* What the metadata of a call may carry: "" is a missing value.
MetaIds == XferIds \cup {""}
\* Only the last stream tries a role the server does not know.
MetaRoles(x) == Roles \cup {""} \cup {"viewer" : i \in {x} \cap {NStreams}}
\* The peer address of the x-th stream: each has a connection of its own,
\* or the last one shares the connection of the one before.
StreamAddrs(x) ==
    {AddrSeq[x]} \cup {AddrSeq[x - 1] : i \in {x} \cap {NStreams}}

Chunk(x, n, l) == [src |-> x, n |-> n, last |-> l]

\* Recv on x fails, Send on x fails: the client's end, or the handler of x
\* has returned.
RecvFails(x) == st[x] # "open" \/ tfPc[x] = "done"
SendFails(x) == st[x] = "broken" \/ tfPc[x] = "done"

\* main.go:271-275: the metadata is read and the Transfer is loaded.
\* md.Get returns an empty slice for a missing key, and indexing it panics:
\* the process is gone.  A miss is the error "transfer not initiated".
TfOpen(x) ==
    /\ ~crashed
    /\ tfPc[x] = "start"
    /\ \A i \in Streams : i < x => tfPc[i] # "start"
    /\ \E t \in MetaIds, role \in MetaRoles(x), a \in StreamAddrs(x) :
          IF t = "" \/ role = ""
          THEN /\ crashed' = TRUE
               /\ UNCHANGED <<tfPc, tfId, tfRole, tfAddr, tfKind, tfResult>>
          ELSE IF activeTransfers[t] = "none"
          THEN /\ tfResult' = [tfResult EXCEPT ![x] = "transfer not initiated"]
               /\ tfPc' = [tfPc EXCEPT ![x] = "done"]
               /\ UNCHANGED <<tfId, tfRole, tfAddr, tfKind, crashed>>
          ELSE /\ tfId' = [tfId EXCEPT ![x] = t]
               /\ tfRole' = [tfRole EXCEPT ![x] = role]
               /\ tfAddr' = [tfAddr EXCEPT ![x] = a]
               /\ tfKind' = [tfKind EXCEPT ![x] = activeTransfers[t]]
               /\ tfPc' = [tfPc EXCEPT ![x] = "attach"]
               /\ UNCHANGED <<tfResult, crashed>>
    /\ UNCHANGED <<pc, roomID, senderID, clientAddr, room, rooms, clients,
                   users, ch, closed, outb, bmsg, target, nrecv, tosend,
                   result, reject, activeTransfers>>
    /\ UNCHANGED <<xfervars, chatvars, st, sent, got, txSender, txReceiver,
                   txReceivers, proxies>>

\* A handleP2PTransfer that is not the code's, to test the properties
\* against: it starts the proxy whether or not the other slot is taken.
StartedAlways(other, pair) == {pair}

\* main.go:285 and 288: `if receiver != nil { go s.proxyP2PChunks(...) }`,
\* and the same for the sender: the goroutines the attachment starts.
Started(other, pair) == IF other # None THEN {pair} ELSE {}

\* main.go:282-291, handleP2PTransfer up to the wait: the stream goes into
\* the slot of its role, and a proxyP2PChunks goroutine is started when the
\* other slot is taken.  Any other role takes no slot.
AttachP2P(x) ==
    /\ ~crashed
    /\ tfPc[x] = "attach" /\ tfKind[x] = "p2p"
    /\ LET t == tfId[x]
       IN  IF tfRole[x] = "sender"
           THEN /\ txSender' = [txSender EXCEPT ![t] = x]
                /\ proxies' = proxies \cup
                                 Started(txReceiver[t], <<x, txReceiver[t]>>)
                /\ UNCHANGED txReceiver
           ELSE IF tfRole[x] = "receiver"
           THEN /\ txReceiver' = [txReceiver EXCEPT ![t] = x]
                /\ proxies' = proxies \cup
                                 Started(txSender[t], <<txSender[t], x>>)
                /\ UNCHANGED txSender
           ELSE UNCHANGED <<txSender, txReceiver, proxies>>
    /\ tfPc' = [tfPc EXCEPT ![x] = "waitDone"]
    /\ UNCHANGED <<joinvars, xfervars, chatvars, tfId, tfRole, tfAddr, tfKind,
                   tfResult, st, sent, got, txReceivers>>

\* main.go:293-304, handleBroadcastTransfer up to the wait: a sender is
\* refused when the Transfer has one and goes on to relay otherwise; a
\* receiver is stored under its peer address.
AttachBroadcast(x) ==
    /\ ~crashed
    /\ tfPc[x] = "attach" /\ tfKind[x] = "broadcast"
    /\ LET t == tfId[x]
       IN  IF tfRole[x] = "sender"
           THEN IF txSender[t] # None
                THEN /\ tfResult' = [tfResult EXCEPT ![x] =
                                        "broadcast sender already exists"]
                     /\ tfPc' = [tfPc EXCEPT ![x] = "done"]
                     /\ UNCHANGED <<txSender, txReceivers>>
                ELSE /\ txSender' = [txSender EXCEPT ![t] = x]
                     /\ tfPc' = [tfPc EXCEPT ![x] = "relay"]
                     /\ UNCHANGED <<tfResult, txReceivers>>
           ELSE /\ txReceivers' =
                      IF tfRole[x] = "receiver"
                      THEN [txReceivers EXCEPT ![t][tfAddr[x]] = x]
                      ELSE txReceivers
                /\ tfPc' = [tfPc EXCEPT ![x] = "waitDone"]
                /\ UNCHANGED <<tfResult, txSender>>
    /\ UNCHANGED <<joinvars, xfervars, chatvars, tfId, tfRole, tfAddr, tfKind,
                   st, sent, got, txReceiver, proxies>>

\* main.go:307-313, one round of a proxyP2PChunks goroutine: sender.Recv,
\* then receiver.Send; the goroutine returns when either fails.  Recv blocks
\* while the client has no chunk to send.
ProxyP2P(a, b) ==
    /\ ~crashed
    /\ <<a, b>> \in proxies
    /\ IF RecvFails(a)
       THEN /\ proxies' = proxies \ {<<a, b>>}
            /\ UNCHANGED <<sent, got>>
       ELSE /\ Len(sent[a]) < MaxChunks
            /\ \E l \in BOOLEAN :
                  /\ sent' = [sent EXCEPT ![a] = Append(@, l)]
                  /\ IF SendFails(b)
                     THEN /\ proxies' = proxies \ {<<a, b>>}
                          /\ UNCHANGED got
                     ELSE /\ got' = [got EXCEPT ![b] =
                                 Append(@, Chunk(a, Len(sent[a]) + 1, l))]
                          /\ UNCHANGED proxies
    /\ UNCHANGED <<joinvars, xfervars, chatvars, tfPc, tfId, tfRole, tfAddr,
                   tfKind, tfResult, st, txSender, txReceiver, txReceivers>>

\* Two relays that are not the code's, to test the properties against: one
\* goes on after the terminal chunk, one drops every receiver when a send
\* to one of them fails.
KeepRelaying(l) == "relay"
EvictAll(m, failed) == IF failed = {} THEN m ELSE [a \in Addrs |-> None]

\* main.go:324: the loop returns after a chunk with is_last.
AfterChunk(l) == IF l THEN "close" ELSE "relay"

\* main.go:322: tx.receivers.Delete(key) for the keys whose Send failed.
Evict(m, failed) == [a \in Addrs |-> IF a \in failed THEN None ELSE m[a]]

\* main.go:316-325, one round of proxyBroadcastChunks in the sender's
\* handler: tx.sender.Recv, whose failure ends the loop; then Range sends the
\* chunk to every stored receiver and deletes the ones whose Send fails; the
\* loop ends after the terminal chunk.  The Range is one step, which leaves
\* out a receiver being stored while it runs.
RelayBroadcast(x) ==
    /\ ~crashed
    /\ tfPc[x] = "relay"
    /\ IF RecvFails(x)
       THEN /\ tfPc' = [tfPc EXCEPT ![x] = "close"]
            /\ UNCHANGED <<sent, got, txReceivers>>
       ELSE /\ Len(sent[x]) < MaxChunks
            /\ \E l \in BOOLEAN :
                  LET m == txReceivers[tfId[x]]
                      keys == {a \in Addrs : m[a] # None}
                      failed == {a \in keys : SendFails(m[a])}
                      hit == {m[a] : a \in keys \ failed}
                      c == Chunk(x, Len(sent[x]) + 1, l)
                  IN  /\ sent' = [sent EXCEPT ![x] = Append(@, l)]
                      /\ got' = [y \in Streams |->
                            IF y \in hit THEN Append(got[y], c) ELSE got[y]]
                      /\ txReceivers' =
                            [txReceivers EXCEPT ![tfId[x]] = Evict(m, failed)]
                      /\ tfPc' = [tfPc EXCEPT ![x] = AfterChunk(l)]
    /\ UNCHANGED <<joinvars, xfervars, chatvars, tfId, tfRole, tfAddr, tfKind,
                   tfResult, st, txSender, txReceiver, proxies>>

\* main.go:315: the deferred s.activeTransfers.Delete(tID) of
\* proxyBroadcastChunks; the handler then waits for its context.
CloseBroadcast(x) ==
    /\ ~crashed
    /\ tfPc[x] = "close"
    /\ activeTransfers' = [activeTransfers EXCEPT ![tfId[x]] = "none"]
    /\ tfPc' = [tfPc EXCEPT ![x] = "waitDone"]
    /\ UNCHANGED <<pc, roomID, senderID, clientAddr, room, rooms, clients,
                   users, ch, closed, outb, bmsg, target, nrecv, tosend,
                   result, reject, crashed>>
    /\ UNCHANGED <<xfervars, chatvars, tfId, tfRole, tfAddr, tfKind, tfResult,
                   st, sent, got, txSender, txReceiver, txReceivers, proxies>>

\* The client of a sending stream half-closes it.
ClientEof(x) ==
    /\ ~crashed
    /\ tfPc[x] \in {"waitDone", "relay"} /\ tfRole[x] = "sender"
    /\ st[x] = "open"
    /\ st' = [st EXCEPT ![x] = "eof"]
    /\ UNCHANGED <<joinvars, xfervars, chatvars, tfPc, tfId, tfRole, tfAddr,
                   tfKind, tfResult, sent, got, txSender, txReceiver,
                   txReceivers, proxies>>

\* The client of a stream cancels it, or its connection breaks.
ClientBreak(x) ==
    /\ ~crashed
    /\ tfPc[x] \in {"waitDone", "relay"}
    /\ st[x] # "broken"
    /\ st' = [st EXCEPT ![x] = "broken"]
    /\ UNCHANGED <<joinvars, xfervars, chatvars, tfPc, tfId, tfRole, tfAddr,
                   tfKind, tfResult, sent, got, txSender, txReceiver,
                   txReceivers, proxies>>

\* main.go:290-291 and 301-305: <-stream.Context().Done() returns and the
\* handler returns nil; a broadcast receiver's deferred
\* tx.receivers.Delete(clientAddr) runs.
TfReturn(x) ==
    /\ ~crashed
    /\ tfPc[x] = "waitDone"
    /\ st[x] = "broken"
    /\ tfPc' = [tfPc EXCEPT ![x] = "done"]
    /\ tfResult' = [tfResult EXCEPT ![x] = "nil"]
    /\ txReceivers' =
          IF tfKind[x] = "broadcast" /\ tfRole[x] = "receiver"
          THEN [txReceivers EXCEPT ![tfId[x]][tfAddr[x]] = None]
          ELSE txReceivers
    /\ UNCHANGED <<joinvars, xfervars, chatvars, tfId, tfRole, tfAddr, tfKind,
                   st, sent, got, txSender, txReceiver, proxies>>

NextStream ==
    \/ \E x \in Streams : TfOpen(x)
    \/ \E x \in Streams : AttachP2P(x)
    \/ \E x \in Streams : AttachBroadcast(x)
    \/ \E a, b \in Streams : ProxyP2P(a, b)
    \/ \E x \in Streams : RelayBroadcast(x)
    \/ \E x \in Streams : CloseBroadcast(x)
    \/ \E x \in Streams : ClientEof(x)
    \/ \E x \in Streams : ClientBreak(x)
    \/ \E x \in Streams : TfReturn(x)

\* The server with no room, after a request for t1 was accepted (main.go:256)
\* and t2 was announced (main.go:161-163).
StreamInit ==
    /\ pc = [p \in Calls |-> "start"]
    /\ roomID = [p \in Calls |-> ""]
    /\ senderID = [p \in Calls |-> ""]
    /\ clientAddr = [p \in Calls |-> ""]
    /\ room = [p \in Calls |-> None]
    /\ rooms = [r \in Rooms |-> None]
    /\ clients = [o \in Calls |-> [a \in Addrs |-> None]]
    /\ users = [o \in Calls |-> [n \in Names |-> None]]
    /\ ch = [p \in Calls |-> <<>>]
    /\ closed = [p \in Calls |-> FALSE]
    /\ outb = [p \in Calls |-> "off"]
    /\ bmsg = [p \in Calls |-> NoEnv]
    /\ target = [p \in Calls |-> None]
    /\ nrecv = [p \in Calls |-> 0]
    /\ tosend = 0
    /\ result = [p \in Calls |-> ""]
    /\ reject = [p \in Calls |-> NoEnv]
    /\ activeTransfers = [t \in XferIds |-> IF t = "t1" THEN "p2p" ELSE "broadcast"]
    /\ crashed = FALSE
    /\ XferIdle
    /\ ChatServerIdle
    /\ StreamIdle

SpecStream == StreamInit /\ [][NextStream]_vars

\* ------------------------------------------- announcements and their streams
\* The busy room whose members send file announcements for t1 while
\* TransferFile streams come and go.  A request for t1 may have been accepted
\* before (main.go:256).
AnnounceInit ==
    /\ pc = [p \in Calls |-> IF InRoom(p) THEN "recv" ELSE "start"]
    /\ roomID = [p \in Calls |-> IF InRoom(p) THEN "r1" ELSE ""]
    /\ senderID = [p \in Calls |->
          IF p = 1 THEN "alice" ELSE IF p = 3 THEN "bob" ELSE ""]
    /\ clientAddr = [p \in Calls |-> IF InRoom(p) THEN AddrSeq[p] ELSE ""]
    /\ room = [p \in Calls |-> IF InRoom(p) THEN 1 ELSE None]
    /\ rooms = [r \in Rooms |-> IF r = "r1" THEN 1 ELSE None]
    /\ clients = [o \in Calls |-> [a \in Addrs |->
          IF o = 1 /\ a = "a1" THEN 1 ELSE IF o = 1 /\ a = "a3" THEN 3 ELSE None]]
    /\ users = [o \in Calls |-> [n \in Names |->
          IF o = 1 /\ n = "alice" THEN 1 ELSE IF o = 1 /\ n = "bob" THEN 3 ELSE None]]
    /\ ch = [p \in Calls |-> <<>>]
    /\ closed = [p \in Calls |-> FALSE]
    /\ outb = [p \in Calls |-> IF InRoom(p) THEN "on" ELSE "off"]
    /\ bmsg = [p \in Calls |-> NoEnv]
    /\ target = [p \in Calls |-> None]
    /\ nrecv = [p \in Calls |-> 0]
    /\ tosend = MaxMsgs
    /\ result = [p \in Calls |-> ""]
    /\ reject = [p \in Calls |-> NoEnv]
    /\ \E k \in {"none", "p2p"} :
          activeTransfers = [t \in XferIds |-> IF t = "t1" THEN k ELSE "none"]
    /\ crashed = FALSE
    /\ XferIdle
    /\ ChatServerIdle
    /\ StreamIdle

\* No TransferFile handler is going to read or write a field of the Transfer
\* it loaded under t: none has loaded it, or the ones that have are
\* point-to-point handlers that wait for their context.
Quiet(t) ==
    \A x \in Streams :
        tfId[x] = t /\ tfPc[x] # "done"
            => tfKind[x] = "p2p" /\ tfPc[x] = "waitDone"

\* The clients announce a file when no handler is in the middle of working
\* on the Transfer the announcement replaces.
AnnounceQuiet(p) == (\A t \in TransferIds : Quiet(t)) /\ RecvFileAnnouncement(p)

\* Number of TransferFile streams that are opened next to an announcement.
NAnnStreams == 2

\* The clients open that many streams.
AnnounceOpen(x) == x <= NAnnStreams /\ TfOpen(x)

NextAnnounce ==
    \/ \E p \in Calls : AnnounceQuiet(p)
    \/ \E p \in Calls : FileBroadcast(p)
    \/ \E p \in Calls : Drain(p)
    \/ \E x \in Streams : AnnounceOpen(x)
    \/ \E x \in Streams : AttachP2P(x)
    \/ \E x \in Streams : AttachBroadcast(x)
    \/ \E a, b \in Streams : ProxyP2P(a, b)
    \/ \E x \in Streams : RelayBroadcast(x)
    \/ \E x \in Streams : CloseBroadcast(x)
    \/ \E x \in Streams : ClientEof(x)
    \/ \E x \in Streams : ClientBreak(x)
    \/ \E x \in Streams : TfReturn(x)

SpecAnnounce == AnnounceInit /\ [][NextAnnounce]_vars

\* The steps the server takes on its own; what is left is the clients'
\* choice: to open a stream, to end it, to break the connection.
ServerStream ==
    \/ \E x \in Streams : AttachP2P(x)
    \/ \E x \in Streams : AttachBroadcast(x)
    \/ \E a, b \in Streams : ProxyP2P(a, b)
    \/ \E x \in Streams : RelayBroadcast(x)
    \/ \E x \in Streams : CloseBroadcast(x)
    \/ \E x \in Streams : TfReturn(x)

\* The same streams with the goroutines of the server scheduled fairly.
LiveStream == SpecStream /\ WF_vars(ServerStream)

\* The steps call p takes without its client: everything but reading a new
\* envelope; and the Recv of a call whose sending goroutine has seen Send
\* fail, whose stream is broken, fails as well.
HandlerStep(p) ==
    \/ AddClientLoad(p)
    \/ AddClientStore(p)
    \/ Announce(p)
    \/ SendWelcome(p)
    \/ FileBroadcast(p)
    \/ PrivateSend(p)
    \/ RemoveClient(p)
    \/ CheckEmpty(p)
    \/ AnnounceLeft(p)
    \/ DeleteRoom(p)
    \/ Drain(p)
    \/ outb[p] = "dead" /\ RecvEnd(p)

\* The busy room with every goroutine of the server scheduled fairly.
LiveChat == SpecChat /\ \A p \in Calls : WF_vars(HandlerStep(p))

\* --------------------------------------------------------------- properties
\* Call p is a member: AddClient has returned nil and the deferred function
\* has not yet run RemoveClient.
Admitted(p) ==
    pc[p] \in {"announce", "welcome", "recv", "fileBcast", "pmSend", "pmErr",
               "release"}

\* No call is on its way in (from LoadOrStore to the welcome) or on its way
\* out (in the deferred function).
Quiescent ==
    \A p \in Calls :
        pc[p] \in {"start", "recv", "fileBcast", "pmSend", "pmErr", "done"}

\* The number of entries of a sync.Map.
ViewSize(m) == Cardinality({k \in DOMAIN m : m[k] # None})

\* The calls in progress come from different connections.
DistinctPeers ==
    \A p, q \in Calls :
        p # q /\ clientAddr[p] # "" => clientAddr[p] # clientAddr[q]

\* Steps of call p, told by what they do to pc and nrecv.
LoadStep(p) == pc[p] = "addLoad" /\ pc'[p] # "addLoad"
DefaultStep(p) ==
    pc[p] = "recv" /\ pc'[p] = "recv" /\ nrecv'[p] = nrecv[p] + 1
FileStep(p) == pc[p] = "fileBcast" /\ pc'[p] = "recv"
JoinedStep(p) == pc[p] = "announce" /\ pc'[p] = "welcome"
LeftStep(p) == pc[p] = "relLeft" /\ pc'[p] = "done"
DeleteStep(p) == pc[p] = "relDelete" /\ pc'[p] = "done"
PrivateStep(p) == pc[p] = "recv" /\ pc'[p] \in {"pmSend", "pmErr"}
ForwardStep(p) == pc[p] = "pmSend" /\ pc'[p] = "recv"
ErrorStep(p) == pc[p] = "pmErr" /\ pc'[p] = "recv"

\* The envelopes the Broadcast of a step of call p may carry.
Carried(p) ==
    IF DefaultStep(p)
      THEN {Inbound(p, k, "", <<MsgText[nrecv[p] + 1]>>) : k \in DefaultKinds}
    ELSE IF FileStep(p) THEN {bmsg[p]}
    ELSE IF JoinedStep(p) THEN {UserJoined(p)}
    ELSE IF LeftStep(p) THEN {UserLeft(p)}
    ELSE {}

\* The Clients that Broadcast finds in the clients view of p's Room.
Recipients(p) ==
    {clients[room[p]][a] :
        a \in RangeKeys(room[p],
                        IF DefaultStep(p) \/ FileStep(p) THEN clientAddr[p] ELSE "")}

\* C1: in a Room no two members have usernames that are equal when letter
\* case is ignored, and a join under a name that differs only in letter case
\* from a name in the users view is rejected with AlreadyExists and changes
\* neither view.
C1_Unique ==
    \A p, q \in Calls :
        p # q /\ Admitted(p) /\ Admitted(q) /\ room[p] = room[q]
            => ToLower(senderID[p]) # ToLower(senderID[q])

C1_Rejects ==
    \A p \in Calls :
        /\ LoadStep(p)
        /\ \E n \in Names : /\ users[room[p]][n] # None
                            /\ ToLower(n) = ToLower(senderID[p])
        => /\ result'[p] = "AlreadyExists"
           /\ clients' = clients
           /\ users' = users

C1_CaseInsensitiveNames == []C1_Unique /\ [][C1_Rejects]_vars

\* C2: of the joins to one Room that carry the same username, at most one
\* is admitted at any time, however the joins interleave.
C2_OneAdmitted ==
    \A p, q \in Calls :
        p # q /\ Admitted(p) /\ Admitted(q) /\ room[p] = room[q]
            => senderID[p] # senderID[q]

\* C3: when no call is on its way in or out, the clients view and the users
\* view of every Room have the same number of entries.
C3_ViewsBalanced ==
    Quiescent =>
        \A o \in Calls : ViewSize(clients[o]) = ViewSize(users[o])

\* C4: when no call is on its way in or out, every registered Room has a
\* member, and the room id of every member is registered.
C4_RegistryExact ==
    Quiescent =>
        /\ \A r \in Rooms :
              rooms[r] # None =>
                  \E p \in Calls : Admitted(p) /\ room[p] = rooms[r]
        /\ \A p \in Calls : Admitted(p) => rooms[roomID[p]] # None

\* C5: with every call on a connection of its own, the deferred function
\* never deletes the registry entry of a Room that has a member or a call
\* inside AddClient, and AddClient never adds a Client to a Room that is
\* not the one registered under the call's room id.
C5_Step ==
    \A p \in Calls :
        /\ DeleteStep(p) =>
              \A q \in Calls :
                  q # p /\ room[q] = rooms[roomID[p]]
                      => ~(Admitted(q) \/ pc[q] \in {"addLoad", "addStore"})
        /\ pc[p] = "addStore" /\ pc'[p] = "announce" =>
              rooms[roomID[p]] = room[p]

C5_NoRoomLost == [][DistinctPeers => C5_Step]_vars

\* C6: the envelopes of one sender that are together on a queue are there in
\* the order the sender sent them.
C6_SenderOrder ==
    \A b \in Calls :
        \A i, j \in 1..Len(ch[b]) :
            i < j /\ ch[b][i].from # None /\ ch[b][i].from = ch[b][j].from
                => ch[b][i].seq < ch[b][j].seq

\* Two envelopes of one sender are together on a queue.
C6_TwoQueued ==
    \E b \in Calls :
        \E i, j \in 1..Len(ch[b]) :
            i < j /\ ch[b][i].from # None /\ ch[b][i].from = ch[b][j].from

\* C7: a text, audio or file-announcement envelope that arrives from member
\* p is appended to the queue of every other member of p's room whose own
\* stream has not ended and whose queue has room, and p's own queue is left
\* alone.
C7_Step ==
    \A p \in Calls :
        DefaultStep(p) \/ FileStep(p) =>
            \E m \in Carried(p) :
                \A q \in Calls :
                    IF q = p
                      THEN ch'[q] = ch[q]
                      ELSE Admitted(q) /\ pc[q] # "release"
                              /\ roomID[q] = roomID[p]
                              /\ Len(ch[q]) < ChanCap
                           => ch'[q] = Append(ch[q], m)

C7_RelayToOthers == [][C7_Step]_vars

\* C8: a Broadcast that finds a recipient's queue full leaves that queue as
\* it is and appends the envelope to the queue of every recipient that has
\* room; and a handler that has a Broadcast to make can always make it.
C8_Step ==
    \A p \in Calls :
        /\ Carried(p) # {}
        /\ \E q \in Recipients(p) : Len(ch[q]) = ChanCap
        => \E m \in Carried(p) :
              \A q \in Recipients(p) :
                  ch'[q] = IF Len(ch[q]) = ChanCap THEN ch[q]
                           ELSE Append(ch[q], m)

C8_NeverBlocks ==
    \A p \in Calls :
        Running /\ pc[p] \in {"announce", "fileBcast", "relLeft"}
            => ENABLED (Announce(p) \/ FileBroadcast(p) \/ AnnounceLeft(p))

C9_Step ==
    \A p \in Calls :
        /\ PrivateStep(p) =>
              \A B \in Calls :
                  /\ B # p
                  /\ Admitted(B)
                  /\ roomID[B] = roomID[p]
                  /\ senderID[B] = bmsg'[p].to
                  => /\ pc'[p] = "pmSend"
                     /\ target'[p] = B
                     /\ bmsg'[p].sender = senderID[p]
                     /\ bmsg'[p].kind = "text"
                     /\ bmsg'[p].value =
                           <<"(private from ", senderID[p], ") ",
                             MsgText[nrecv[p] + 1]>>
                     /\ ch' = ch
        /\ ForwardStep(p) =>
              ch' = [ch EXCEPT ![target[p]] = Append(@, bmsg[p])]

C9_PrivateToRecipientOnly == [][C9_Step]_vars

\* C10: a private message from p addressed to a username that no member of
\* p's Room has is answered with one ERROR command from "Server" whose value
\* holds that username: it is appended to p's queue, and no other queue and
\* neither view of any Room changes.
C10_Step ==
    \A p \in Calls :
        /\ /\ PrivateStep(p)
           /\ \A B \in Calls :
                 Admitted(B) /\ room[B] = room[p] => senderID[B] # bmsg'[p].to
           => /\ pc'[p] = "pmErr"
              /\ target'[p] = p
              /\ bmsg'[p].sender = "Server"
              /\ bmsg'[p].kind = "command"
              /\ bmsg'[p].type = "ERROR"
              /\ \E i \in 1..Len(bmsg'[p].value) :
                    bmsg'[p].value[i] = bmsg'[p].to
              /\ ch' = ch /\ clients' = clients /\ users' = users
        /\ ErrorStep(p) =>
              /\ ch' = [ch EXCEPT ![p] = Append(@, bmsg[p])]
              /\ clients' = clients /\ users' = users

C10_ErrorToSenderOnly == [][C10_Step]_vars

\* The newest envelope on the queue of a member in its receive loop is the
\* ERROR command of a private message that found nobody.
C10_ErrorQueued ==
    \E p \in Calls :
        /\ pc[p] = "recv"
        /\ ch[p] # <<>>
        /\ ch[p][Len(ch[p])].type = "ERROR"
        /\ ch[p][Len(ch[p])].sender = "Server"
        /\ ch[p][Len(ch[p])].to # ""

\* C11: a call whose initial envelope lacks the sender or the room id (or
\* never arrives) returns InvalidArgument and changes no Room, no view, no
\* queue and no registry; and no call gets past its initial envelope without
\* a room id and a sender.
C11_Step ==
    \A p \in Calls :
        pc[p] = "start" /\ pc'[p] = "done"
            => /\ result'[p] = "InvalidArgument"
               /\ rooms' = rooms /\ clients' = clients /\ users' = users
               /\ ch' = ch /\ outb' = outb /\ closed' = closed
               /\ activeTransfers' = activeTransfers

C11_Named ==
    \A p \in Calls :
        pc[p] \notin {"start", "done"} => roomID[p] # "" /\ senderID[p] # ""

C11_InvalidLeavesNoTrace == []C11_Named /\ [][C11_Step]_vars

\* A call has returned InvalidArgument while another call is a member.
C11_InvalidReturned ==
    \E p, q \in Calls : result[p] = "InvalidArgument" /\ Admitted(q)

\* C12: a join rejected because the username is taken writes to its stream
\* an ERROR command whose sender is "Server" and whose value holds the
\* username, returns, and changes neither view and no queue.
C12_Step ==
    \A p \in Calls :
        LoadStep(p) /\ result'[p] = "AlreadyExists"
            => /\ reject'[p].sender = "Server"
               /\ reject'[p].kind = "command"
               /\ reject'[p].type = "ERROR"
               /\ \E i \in 1..Len(reject'[p].value) :
                     reject'[p].value[i] = senderID[p]
               /\ pc'[p] = "done"
               /\ clients' = clients /\ users' = users /\ ch' = ch

C12_RejectionEnvelope == [][C12_Step]_vars

\* C13: the USER_JOINED notice of p's admission is appended to the queue of
\* every other member of p's room that has room for it and not to p's own
\* queue, and p's next step appends the WELCOME command to p's queue.
C13_Step ==
    \A p \in Calls :
        /\ JoinedStep(p) =>
              \A q \in Calls :
                  IF q = p
                    THEN ch'[q] = ch[q]
                    ELSE Admitted(q) /\ pc[q] # "release"
                            /\ roomID[q] = roomID[p]
                            /\ Len(ch[q]) < ChanCap
                         => ch'[q] = Append(ch[q], UserJoined(p))
        /\ pc[p] = "welcome" /\ pc'[p] = "recv" =>
              ch' = [ch EXCEPT ![p] = Append(@, Welcome(p))]

C13_JoinNotices == [][C13_Step]_vars

\* C14: when the stream of member p has ended, RemoveClient leaves p in
\* neither view of its Room, and the deferred function ends with a USER_LEFT
\* notice naming p, from "Server", appended to the queue of every member
\* that is still in the Room and has room for it.
C14_Step ==
    \A p \in Calls :
        /\ pc[p] = "release" /\ pc'[p] = "relEmpty" =>
              /\ \A a \in Addrs : clients'[room[p]][a] # p
              /\ \A n \in Names : users'[room[p]][n] # p
        /\ LeftStep(p) \/ DeleteStep(p) =>
              \A q \in Calls :
                  /\ q # p
                  /\ Admitted(q) /\ pc[q] # "release"
                  /\ room[q] = room[p]
                  /\ Len(ch[q]) < ChanCap
                  => ch'[q] = Append(ch[q], UserLeft(p))

C14_LeaveNotices == [][C14_Step]_vars

\* C16: in the busy room, when one more call has joined and then left while
\* alice and bob stayed in their receive loops and nobody else started, the
\* registry and both views of every Room are what they were before that
\* call started.
C16_Restored ==
    \A j \in Calls :
        /\ ~InRoom(j)
        /\ pc[j] = "done" /\ result[j] = "Ended"
        /\ \A q \in Calls \ {j} :
              pc[q] = IF InRoom(q) THEN "recv" ELSE "start"
        => /\ rooms = [r \in Rooms |-> IF r = "r1" THEN 1 ELSE None]
           /\ clients = [o \in Calls |-> [a \in Addrs |->
                 IF o = 1 /\ a = "a1" THEN 1
                 ELSE IF o = 1 /\ a = "a3" THEN 3 ELSE None]]
           /\ users = [o \in Calls |-> [n \in Names |->
                 IF o = 1 /\ n = "alice" THEN 1
                 ELSE IF o = 1 /\ n = "bob" THEN 3 ELSE None]]

\* C15: a RemoveClient for a Client that has already been removed changes
\* neither view of any Room (a step that moves no call is a queue being
\* written out, an envelope being relayed, or that second RemoveClient).
C15_Step == pc' = pc => clients' = clients /\ users' = users

C15_SecondReleaseNoOp == [][C15_Step]_vars

\* A RequestFileTransfer call q sends its notification in this step.
NotifyStep(q) == reqPc[q] = "notify" /\ reqPc'[q] = "wait"

\* C17: the file-request notification of RequestFileTransfer (sender
\* "Sistema-FileTransfer", content FILE_REQUEST with the transfer id, the
\* source username, the file name, the size and the timestamp) is enqueued
\* to the destination participant named in the request and to no other
\* member of the room.
C17_Step ==
    \A q \in Reqs :
        NotifyStep(q) =>
            \A p \in Calls :
                ch'[p] # ch[p] =>
                    /\ senderID[p] = Destination
                    /\ ch'[p] = Append(ch[p], ch'[p][Len(ch'[p])])
                    /\ LET e == ch'[p][Len(ch'[p])]
                       IN  /\ e.sender = "Sistema-FileTransfer"
                           /\ e.value = <<"FILE_REQUEST", reqTid[q], Requester,
                                          "f.bin", "1", "0">>

C17_NotifyDestinationOnly == [][C17_Step]_vars

\* A RequestFileTransfer call q takes a response out of its respChan, and a
\* TransferFile call is made, in this step.
ReceiveStep(q) ==
    reqPc[q] = "wait" /\ reqPc'[q] = "deferred" /\ respChan'[q] # respChan[q]
TransferFileStep == tfCount' = tfCount + 1

\* C18: when the responder answers a pending request for transfer id T with
\* accepted=false, the request returns accepted=false and records no Transfer
\* for T: a p2p Transfer is in the registry only for an id some request got
\* an accepting response for.  A TransferFile carrying an id with no Transfer,
\* in either role, fails with the not-found error and attaches no stream.
C18_Recorded ==
    \A t \in XferIds :
        /\ activeTransfers[t] = "p2p" =>
              \E q \in Reqs : reqTid[q] = t /\ reqResult[q] = Resp(t, TRUE)
        /\ attached[t] # {} => activeTransfers[t] # "none"

C18_Step ==
    /\ \A q \in Reqs :
          ReceiveStep(q) /\ ~Head(respChan[q]).accepted =>
              /\ reqResult'[q] = Resp(reqTid[q], FALSE)
              /\ activeTransfers' = activeTransfers
    /\ TransferFileStep /\ activeTransfers[tfLast'.id] = "none" =>
          /\ tfLast'.outcome = "transfer not initiated"
          /\ attached' = attached

C18_RejectedNeverRecorded == []C18_Recorded /\ [][C18_Step]_vars

\* A request for t1 has returned the responder's rejection, and a later
\* TransferFile for t1 has been refused.
C18_RejectedThenRefused ==
    \E q \in Reqs, k \in Resps :
        /\ reqPc[q] = "done" /\ reqTid[q] = "t1"
        /\ reqResult[q] = Resp("t1", FALSE)
        /\ rspChan[k] = q /\ rspResult[k] = "ok"
        /\ rspMsg[k] = Resp("t1", FALSE)
        /\ respChan[q] = <<>>
        /\ \A i \in Resps \ {k} : rspPc[i] = "start"
        /\ tfLast = [id |-> "t1", role |-> "receiver",
                     outcome |-> "transfer not initiated"]

\* A RequestFileTransfer call q takes the timer's case, and returns, and a
\* RespondFileTransfer call k looks its channel up, in this step.
TimeoutStep(q) ==
    reqPc[q] = "wait" /\ reqPc'[q] = "deferred" /\ respChan'[q] = respChan[q]
DeferredStep(q) == reqPc[q] = "deferred" /\ reqPc'[q] = "done"
LookupStep(k) == rspPc[k] = "start" /\ rspPc'[k] # "start"

\* C19: a RequestFileTransfer whose timer fires before a response is read
\* returns accepted=false and records no Transfer (only a request that is
\* still waiting and reads a response changes the Transfer Registry); when
\* it returns its pending rendezvous is removed, so once every request for a
\* transfer id has returned none is registered under it, and a response
\* that finds none is refused as an invalid transfer id and changes nothing.
C19_Removed ==
    \A t \in XferIds :
        (\A q \in Reqs : reqTid[q] = t => reqPc[q] = "done")
            => transferResponses[t] = None

C19_Step ==
    /\ \A q \in Reqs :
          /\ TimeoutStep(q) =>
                /\ reqResult'[q] = Resp(reqTid[q], FALSE)
                /\ activeTransfers' = activeTransfers
          /\ DeferredStep(q) => transferResponses'[reqTid[q]] = None
    /\ \A t \in XferIds :
          activeTransfers'[t] # activeTransfers[t] =>
              \E q \in Reqs : ReceiveStep(q) /\ reqTid[q] = t
    /\ \A k \in Resps :
          LookupStep(k) /\ transferResponses[rspMsg'[k].id] = None =>
              /\ rspResult'[k] = "invalid transfer ID"
              /\ rspPc'[k] = "done"
              /\ respChan' = respChan
              /\ activeTransfers' = activeTransfers

C19_TimeoutRejects == []C19_Removed /\ [][C19_Step]_vars

\* The only request for t1 has timed out and returned: the first response,
\* an acceptance, found its channel and lies in it unread; the second one,
\* which came after the first, found no channel and was refused; and there is
\* no Transfer for t1.
C19_LateResponseRefused ==
    \E q \in Reqs :
        /\ reqPc[q] = "done" /\ reqTid[q] = "t1"
        /\ \A i \in Reqs \ {q} : reqTid[i] # "t1"
        /\ reqResult[q] = Resp("t1", FALSE)
        /\ rspChan[1] = q /\ rspResult[1] = "ok"
        /\ respChan[q] = <<Resp("t1", TRUE)>>
        /\ rspMsg[2] = Resp("t1", TRUE)
        /\ rspResult[2] = "invalid transfer ID"
        /\ activeTransfers["t1"] = "none"

\* C20: the arbitration rendezvous is keyed by transfer id: a
\* RequestFileTransfer for transfer id T returns only a response whose
\* transfer id is T (or the timeout rejection for T), in conference-server
\* and in chat-server, also when one sender has overlapping requests or a
\* response to a timed-out request arrives late.
C20_Conference ==
    \A q \in Reqs :
        /\ reqPc[q] \in {"deferred", "done"} => reqResult[q].id = reqTid[q]
        /\ \A i \in 1..Len(respChan[q]) : respChan[q][i].id = reqTid[q]

C20_ChatServer ==
    \A q \in Reqs :
        chatReqPc[q] = "done" /\ chatReqTid[q] # ""
            => chatReqResult[q].id = chatReqTid[q]

C20_KeyedByTransferId == C20_Conference /\ C20_ChatServer

\* Call p puts its WELCOME on its own queue in this step.
WelcomeStep(p) == pc[p] = "welcome" /\ pc'[p] = "recv"

\* C29: for every admitted participant the WELCOME envelope is the first
\* envelope placed on its outbound queue: when the WELCOME is enqueued the
\* queue, which no goroutine reads yet, holds no room event.
C29_Step == \A p \in Calls : WelcomeStep(p) => ch[p] = <<>>

C29_WelcomeFirst == [][C29_Step]_vars

\* C21: for an accepted point-to-point Transfer the chunks forwarded to the
\* receiver are a prefix of the chunks its sender emitted, in the same order,
\* and no chunk is forwarded after a chunk with is_last.
C21_PrefixUpToTerminal ==
    \A b \in Streams :
        tfKind[b] = "p2p" =>
            \A i \in 1..Len(got[b]) :
                /\ got[b][i].src = got[b][1].src
                /\ got[b][i].n = i
                /\ got[b][i].last = sent[got[b][i].src][i]
                /\ i < Len(got[b]) => ~got[b][i].last

\* C22: once the terminal chunk of an accepted point-to-point Transfer has
\* been relayed to the receiver, the Transfer is removed from the Transfer
\* Registry (so that a later TransferFile for it is refused).
C22_ClosedAfterTerminal ==
    \A b \in Streams :
        /\ tfKind[b] = "p2p"
        /\ \E i \in 1..Len(got[b]) : got[b][i].last
        => activeTransfers[tfId[b]] = "none"

\* The streams of a chunk-forwarding goroutine whose loop ends in this step.
ProxyEnds(a, b) == <<a, b>> \in proxies /\ <<a, b>> \notin proxies'

\* C26: a point-to-point Transfer in streaming is closed with an error as
\* soon as either attachment fails before the terminal chunk: when the
\* forwarding ends on a failed Recv or Send the Transfer is removed from the
\* Transfer Registry and the handlers of both attachments terminate.
C26_Step ==
    \A a, b \in Streams :
        /\ ProxyEnds(a, b)
        /\ \A i \in 1..Len(got[b]) : ~got[b][i].last
        => /\ activeTransfers'[tfId[a]] = "none"
           /\ tfPc'[a] = "done"
           /\ tfPc'[b] = "done"

C26_ClosedOnFailure == [][C26_Step]_vars

\* C28: a TransferFile call whose metadata lacks transfer-id or role, or
\* carries a role other than "sender" and "receiver", is rejected with
\* InvalidArgument: the server does not crash, and no such call gets past
\* the lookup to attach to a Transfer.
C28_BadMetadataRejected ==
    /\ ~crashed
    /\ \A x \in Streams :
          tfPc[x] \notin {"start", "done"} => tfRole[x] \in Roles
    /\ \A x \in Streams :
          tfRole[x] \notin Roles \cup {""} => tfResult[x] = "InvalidArgument"

\* The sender x of a broadcast Transfer relays a chunk in this step, and the
\* receivers of Transfer t whose handlers are waiting with their client there.
RelayStep(x) == tfPc[x] = "relay" /\ Len(sent'[x]) = Len(sent[x]) + 1
AttachedReceivers(t) ==
    {b \in Streams : /\ tfKind[b] = "broadcast" /\ tfRole[b] = "receiver"
                     /\ tfId[b] = t /\ tfPc[b] = "waitDone" /\ st[b] # "broken"}

\* C23: in a broadcast Transfer a receiver gets every chunk relayed after its
\* attachment and none relayed before it, in emission order: each chunk the
\* sender relays is sent to every receiver attached at that moment, and to
\* nobody else.
C23_Step ==
    \A x \in Streams :
        RelayStep(x) =>
            \A b \in Streams :
                got'[b] = IF b \in AttachedReceivers(tfId[x])
                          THEN Append(got[b],
                                      Chunk(x, Len(sent'[x]), sent'[x][Len(sent'[x])]))
                          ELSE got[b]

C23_SuffixToAttached == [][C23_Step]_vars

\* The handler of the broadcast sender x runs its deferred Delete, and the
\* call y gets past its lookup, in this step.
CloseStep(x) == tfPc[x] = "close" /\ tfPc'[x] = "waitDone"
OpenStep(y) == tfPc[y] = "start" /\ tfPc'[y] = "attach"

\* C24: once the sender of a broadcast Transfer has emitted the terminal
\* chunk the relay stops and the Transfer is removed from the Transfer
\* Registry; a TransferFile that starts when it is removed does not get past
\* the lookup; and no chunk is relayed after the terminal chunk.
C24_NothingAfterTerminal ==
    \A x \in Streams :
        tfKind[x] = "broadcast" =>
            /\ \A i \in 1..Len(sent[x]) : i < Len(sent[x]) => ~sent[x][i]
            /\ \A i \in 1..Len(got[x]) : i < Len(got[x]) => ~got[x][i].last
            /\ txSender[tfId[x]] = x /\ tfPc[x] \in {"waitDone", "done"}
                  => activeTransfers[tfId[x]] = "none"

C24_Step ==
    /\ \A x \in Streams :
          /\ RelayStep(x) /\ sent'[x][Len(sent'[x])] => tfPc'[x] = "close"
          /\ CloseStep(x) => activeTransfers'[tfId[x]] = "none"
    /\ \A y \in Streams :
          OpenStep(y) => activeTransfers[tfId'[y]] # "none"

C24_BroadcastClosed == []C24_NothingAfterTerminal /\ [][C24_Step]_vars

\* The sender of t2 has relayed its terminal chunk to a receiver and has
\* removed the Transfer, and a TransferFile that came later was refused.
C24_ClosedThenRefused ==
    \E x, b, y \in Streams :
        /\ tfKind[x] = "broadcast" /\ tfRole[x] = "sender"
        /\ tfPc[x] = "waitDone"
        /\ sent[x] = <<FALSE, TRUE>>
        /\ got[b] = <<Chunk(x, 1, FALSE), Chunk(x, 2, TRUE)>>
        /\ activeTransfers["t2"] = "none"
        /\ y > b /\ y > x
        /\ tfPc[y] = "done" /\ tfResult[y] = "transfer not initiated"

\* C25: when a chunk of a broadcast Transfer is relayed, a send failure to
\* one receiver removes that receiver from the receiver set and nothing
\* else: the Transfer stays registered, every other stored receiver is sent
\* the chunk and stays stored, and the sender goes on relaying unless the
\* chunk was the terminal one.
C25_Step ==
    \A x \in Streams :
        RelayStep(x) =>
            LET t == tfId[x]
                l == sent'[x][Len(sent'[x])]
            IN  /\ activeTransfers' = activeTransfers
                /\ tfPc'[x] = IF l THEN "close" ELSE "relay"
                /\ \A a \in Addrs :
                      LET b == txReceivers[t][a]
                      IN  b # None =>
                            IF SendFails(b)
                            THEN /\ txReceivers'[t][a] = None
                                 /\ got'[b] = got[b]
                            ELSE /\ txReceivers'[t][a] = b
                                 /\ got'[b] = Append(got[b],
                                                     Chunk(x, Len(sent'[x]), l))

WaitsAlone(x) ==
    /\ tfKind[x] = "p2p" /\ tfPc[x] = "waitDone"
    /\ \/ txSender[tfId[x]] = x /\ txReceiver[tfId[x]] = None
       \/ txReceiver[tfId[x]] = x /\ txSender[tfId[x]] = None

\* C27: an attachment of an accepted point-to-point Transfer does not wait
\* unboundedly for its peer: unless the other role attaches (or the process
\* is gone), its TransferFile call returns an error and the Transfer is
\* removed from the Transfer Registry.
C27_AttachmentTimesOut ==
    \A x \in Streams :
        WaitsAlone(x) ~>
            \/ crashed
            \/ tfKind[x] = "p2p" /\ txSender[tfId[x]] # None
                                 /\ txReceiver[tfId[x]] # None
            \/ /\ tfKind[x] = "p2p"
               /\ tfPc[x] = "done" /\ tfResult[x] # "nil"
               /\ activeTransfers[tfId[x]] = "none"

\* C30: if the sending goroutine's Send to participant P fails, P is
\* eventually released, without any further action of its client: its
\* deferred function runs to its end (P is out of both views and the notice
\* has been broadcast), unless the server process has died meanwhile.
C30_ReleasedAfterSendFailure ==
    \A p \in Calls : outb[p] = "dead" ~> (pc[p] = "done" \/ crashed)

\* C31: a command envelope received from a participant is ignored: every
\* command envelope in a member's queue was made by the server, none is the
\* relay of an envelope a participant sent.
C31_CommandsFromServerOnly ==
    \A q \in Calls : \A i \in 1..Len(ch[q]) :
        ch[q][i].kind = "command" => ch[q][i].from = None

\* C32: when a RespondFileTransfer with accepted = true for transfer id T
\* has returned successfully, a point-to-point Transfer for T is in the
\* Transfer Registry, and a TransferFile for T that follows is not refused
\* with "transfer not initiated".
C32_Recorded ==
    \A k \in Resps :
        rspPc[k] = "done" /\ rspResult[k] = "ok" /\ rspMsg[k].accepted
            => activeTransfers[rspMsg[k].id] = "p2p"

C32_Step ==
    TransferFileStep =>
        \A k \in Resps :
            rspPc[k] = "done" /\ rspResult[k] = "ok" /\ rspMsg[k].accepted
                /\ rspMsg[k].id = tfLast'.id
            => tfLast'.outcome # "transfer not initiated"

C32_RecordedBeforeResponseReturns == []C32_Recorded /\ [][C32_Step]_vars

\* C33: for a point-to-point Transfer that one sender and one receiver
\* attach to, the chunk proxy is started exactly once, in either order of
\* the two attachments: the attachment that finds the other slot empty
\* starts none, and the one that finds it taken starts the proxy of the two
\* streams, which had not been started before.
AttachStep(x) ==
    /\ tfPc[x] = "attach" /\ tfPc'[x] = "waitDone"
    /\ tfKind[x] = "p2p" /\ tfRole[x] \in Roles

\* x is the only stream of its role that has come to Transfer t.
OnlyOfItsRole(x) ==
    \A y \in Streams \ {x} :
        tfId[y] = tfId[x] /\ tfKind[y] = "p2p" => tfRole[y] # tfRole[x]

C33_Step ==
    \A x \in Streams :
        AttachStep(x) /\ OnlyOfItsRole(x) =>
            LET t == tfId[x]
                other == IF tfRole[x] = "sender" THEN txReceiver[t]
                         ELSE txSender[t]
                pair == IF tfRole[x] = "sender" THEN <<x, other>>
                        ELSE <<other, x>>
            IN  IF other = None
                THEN proxies' = proxies
                ELSE pair \notin proxies /\ proxies' = proxies \cup {pair}

C33_ProxyStartedOnce == [][C33_Step]_vars

\* The receiver came first and the sender second, and their one proxy runs.
C33_ReceiverFirst ==
    \E a, b \in Streams :
        /\ b < a /\ <<a, b>> \in proxies
        /\ tfId[a] = "t1" /\ tfId[b] = "t1"
        /\ tfRole[a] = "sender" /\ tfRole[b] = "receiver"
        /\ OnlyOfItsRole(a) /\ OnlyOfItsRole(b)
        /\ got[b] # <<>>

\* The announcement of t by some member has been broadcast to the room.
Announced(t) ==
    \E p \in Calls : nrecv[p] > 1 \/ (nrecv[p] = 1 /\ pc[p] = "recv")

\* No sender of the broadcast Transfer t has emitted its terminal chunk.
NoTerminal(t) ==
    \A x \in Streams :
        tfId[x] = t /\ tfKind[x] = "broadcast" =>
            \A i \in 1..Len(sent[x]) : ~sent[x][i]

\* C34: the broadcast Transfer for T is registered before the announcement
\* is enqueued to a member, so from the time the announcement has been
\* broadcast until the terminal chunk a TransferFile for T finds T in the
\* Transfer Registry.
C34_RegisteredUntilTerminal ==
    \A t \in TransferIds :
        /\ \A p \in Calls :
              pc[p] = "fileBcast" /\ NoTerminal(t) => activeTransfers[t] # "none"
        /\ Announced(t) /\ NoTerminal(t) => activeTransfers[t] # "none"

\* C35: routing a private message never blocks the handler of the sending
\* participant: whenever handlePrivateMessage is about to enqueue, to the
\* recipient's queue or, on a miss, to the sender's own, the enqueue can
\* proceed at once, also when that queue is full.
C35_PrivateNeverBlocks ==
    \A p \in Calls :
        pc[p] \in {"pmSend", "pmErr"} => CanSend(target[p])

\* C36: whatever number of RespondFileTransfer calls for a pending transfer
\* id run together, what RequestFileTransfer returns is the response of one
\* of them (or the timeout's), and every RespondFileTransfer call returns:
\* none is left in its send on a full respChan that its maker is never going
\* to receive from again.
C36_OneResponseDecides ==
    \A q \in Reqs :
        reqPc[q] \in {"deferred", "done"} =>
            \/ reqResult[q] = Resp(reqTid[q], FALSE)
            \/ \E k \in Resps :
                  rspChan[k] = q /\ rspPc[k] = "done" /\ rspMsg[k] = reqResult[q]

C36_NoResponderStuck ==
    \A k \in Resps :
        rspPc[k] = "send" =>
            \/ Len(respChan[rspChan[k]]) < RespCap
            \/ reqPc[rspChan[k]] \in {"notify", "wait"}

C36_AtMostOneResponder == C36_OneResponseDecides /\ C36_NoResponderStuck

\* C37: no envelope is sent to a participant's queue after the release of
\* the participant has closed it: no handler is at a send whose destination
\* is a closed queue, and no such send has made the process panic.
C37_NoSendOnClosedQueue ==
    /\ ~crashed
    /\ \A p \in Calls :
          pc[p] \in {"pmSend", "pmErr"} => ~closed[target[p]]

\* C38: an admitted JoinConference call always gets past its welcome step:
\* when the call is about to enqueue WELCOME to its own queue, which nothing
\* takes from before the sending goroutine is started after that step, the
\* queue has room for it.
C38_WelcomeNeverBlocks ==
    \A p \in Calls :
        pc[p] = "welcome" => outb[p] = "off" /\ Len(ch[p]) < ChanCap

\* Call p takes a file announcement off its stream and stores its Transfer.
StoreStep(p) == pc[p] = "recv" /\ pc'[p] = "fileBcast"

\* C39: a file announcement whose transfer id is that of a Transfer already
\* in the Transfer Registry does not replace that Transfer: the registry
\* entry and the attachments of the Transfer are what they were.
C39_Step ==
    \A p \in Calls :
        StoreStep(p) =>
            \A t \in TransferIds :
                activeTransfers[t] # "none" /\ bmsg'[p].value = <<t>> =>
                    /\ activeTransfers'[t] = activeTransfers[t]
                    /\ txSender'[t] = txSender[t]
                    /\ txReceiver'[t] = txReceiver[t]
                    /\ txReceivers'[t] = txReceivers[t]

C39_AnnouncementKeepsTransfer == [][C39_Step]_vars

\* A chat-server TransferFile call gets past the lookup and stores its
\* stream in the fileTransfer of call q.
ChatAttachStep(q) ==
    \/ ~senderStream[q] /\ senderStream'[q]
    \/ ~receiverStream[q] /\ receiverStream'[q]

\* C40: chat-server's TransferFile attaches a stream only to a transfer
\* that exists and has been accepted; for a transfer id whose request is
\* pending, was rejected or has timed out, the call is refused.
C40_Step ==
    \A q \in Reqs :
        ChatAttachStep(q) => fileTransfers[chatReqTid[q]] = "accepted"

C40_AttachOnlyAccepted == [][C40_Step]_vars

=============================================================================
